---- MODULE Spec2Model ----
(***************************************************************************)
(* Model of the rule execution engine of the mask data-masking utility:    *)
(* the rule factory and the rules' validation (rules_factory.py, rule.py,  *)
(* data_rules.py, command_rules.py, database_object_rules.py), the group   *)
(* scheduler (masker.py), the sequential pipeline (main.py), the SQL       *)
(* clause builders of the gateway and the error handling of the database   *)
(* context (database_gateway.py, database_context.py), and the per-row     *)
(* rules of data_rules.py: fake-SSN substitution, date variance and fake   *)
(* value substitution.                                                     *)
(***************************************************************************)
EXTENDS Integers, Sequences, FiniteSets, TLC

VARIABLES
    instruction_set,    \* the instruction records read at startup
    pc,                 \* position of the main thread
    i,                  \* index of the loop the main thread is in
    rule_controller,    \* rules built so far, in input order
    groups,             \* list of distinct group numbers
    group,              \* group popped by the current iteration
    rules_in_group,     \* indices (in rule_controller) of the rules of `group`
    started_threads,    \* indices of the rules whose thread was started
    thread,             \* per rule: state of the rule's task
    validated,          \* per rule: number of validate_instructions() calls
    gateway_calls,      \* log of the calls made on the shared gateway
    trace,              \* log of start / return / raise events of execute()
    ssn,                \* local state of one FakeSsnSubstitutionRule.execute()
    local               \* local state of one other execute() or builder call

vars == <<instruction_set, pc, i, rule_controller, groups, group, rules_in_group,
          started_threads, thread, validated, gateway_calls, trace, ssn, local>>

sched_vars == <<instruction_set, pc, i, rule_controller, groups, group,
                rules_in_group, started_threads, thread, validated,
                gateway_calls, trace>>

\* ------------------------------------------------------------------------
\* Bounds
\* ------------------------------------------------------------------------
MaxInstr == 3
MaxRows == 2
MaxColumns == 3
MaxRange == 3
RandResolution == 6

\* ------------------------------------------------------------------------
\* Rule factory (rules_factory.py)
\* ------------------------------------------------------------------------
RuleNames ==
    {"fake_string_substitution", "static_string_substitution",
     "fake_ssn_substitution", "date_variance", "truncate_table", "delete_rows",
     "adhoc_command", "adhoc_script", "disable_trigger", "enable_trigger",
     "disable_check_constraint", "enable_check_constraint",
     "disable_foreign_key", "enable_foreign_key"}

\* class instantiated for each discriminator value
RuleClass(name) ==
    CASE name = "fake_string_substitution" -> "FakeStringSubstitutionRule"
      [] name = "static_string_substitution" -> "StaticStringSubstitutionRule"
      [] name = "fake_ssn_substitution" -> "FakeSsnSubstitutionRule"
      [] name = "date_variance" -> "DateVarianceRule"
      [] name = "truncate_table" -> "TruncateTableRule"
      [] name = "delete_rows" -> "DeleteRowsRule"
      [] name = "adhoc_command" -> "AdHocCommandRule"
      [] name = "adhoc_script" -> "AdHocScriptRule"
      [] name = "disable_trigger" -> "DisableTriggerRule"
      [] name = "enable_trigger" -> "EnableTriggerRule"
      [] name = "disable_check_constraint" -> "DisableCheckConstraintRule"
      [] name = "enable_check_constraint" -> "EnableCheckConstraintRule"
      [] name = "disable_foreign_key" -> "DisableForeignKeyRule"
      [] name = "enable_foreign_key" -> "EnableForeignKeyRule"

\* keys of the instruction that each branch of create_rule reads
RequiredFields(name) ==
    CASE name = "fake_string_substitution" ->
            {"group", "database", "schema", "table", "column", "where_clause",
             "data_set_path", "data_set_key"}
      [] name = "static_string_substitution" ->
            {"group", "database", "schema", "table", "column", "static_value",
             "where_clause"}
      [] name = "fake_ssn_substitution" ->
            {"group", "database", "schema", "table", "column", "seperator",
             "ignore_null"}
      [] name = "date_variance" ->
            {"group", "database", "schema", "table", "column", "range",
             "where_clause", "method"}
      [] name = "truncate_table" -> {"group", "database", "schema", "table"}
      [] name = "delete_rows" ->
            {"group", "database", "schema", "table", "where_clause"}
      [] name = "adhoc_command" -> {"group", "command"}
      [] name = "adhoc_script" -> {"group", "script"}
      [] name = "disable_trigger" ->
            {"group", "database", "schema", "table", "trigger"}
      [] name = "enable_trigger" ->
            {"group", "database", "schema", "table", "trigger"}
      [] name = "disable_check_constraint" ->
            {"group", "database", "schema", "table", "check_constraint"}
      [] name = "enable_check_constraint" ->
            {"group", "database", "schema", "table", "check_constraint"}
      [] name = "disable_foreign_key" ->
            {"group", "database", "schema", "table", "foreign_key"}
      [] name = "enable_foreign_key" ->
            {"group", "database", "schema", "table", "foreign_key"}

\* files that os.path.exists() finds
ExistingPaths == {"names.json", "cleanup.sql"}

exists(path) == path \in ExistingPaths

\* ------------------------------------------------------------------------
\* validate_instructions(), one operator per class; the value is "ok", the
\* message of the ValueError a data rule raises, or the
\* name of the exception raised
\* ------------------------------------------------------------------------
\* Rule.validate_instructions: abstract, body `pass`
Rule_validate_instructions(r) == "ok"

DataRule_validate_instructions(r) ==
    IF Rule_validate_instructions(r) /= "ok" THEN Rule_validate_instructions(r)
    ELSE IF r.database = "" THEN "'database' property not set"
    ELSE IF r.schema = "" THEN "'schema' property not set"
    ELSE IF r.table = "" THEN "'table' property not set"
    ELSE "ok"

FakeStringSubstitutionRule_validate_instructions(r) ==
    IF DataRule_validate_instructions(r) /= "ok" THEN DataRule_validate_instructions(r)
    ELSE IF r.column = "" THEN "'column' property not set"
    ELSE IF ~exists(r.data_set_path) THEN "FileNotFoundError"
    ELSE IF r.data_set_key = "" THEN "'data_set_key' property not set"
    ELSE "ok"

StaticStringSubstitutionRule_validate_instructions_ColumnFirst(r) ==
    IF r.column = "" THEN "'column' property not set"
    ELSE DataRule_validate_instructions(r)

StaticStringSubstitutionRule_validate_instructions(r) ==
    IF DataRule_validate_instructions(r) /= "ok" THEN DataRule_validate_instructions(r)
    ELSE IF r.column = "" THEN "'column' property not set"
    ELSE "ok"

FakeSsnSubstitutionRule_validate_instructions(r) ==
    IF DataRule_validate_instructions(r) /= "ok" THEN DataRule_validate_instructions(r)
    ELSE IF r.column = "" THEN "'column' property not set"
    ELSE IF r.ignore_null /= "yes" /\ r.ignore_null /= "no"
    THEN "'ignore_null' property must be either 'yes' or 'no'"
    ELSE "ok"

DateVarianceRule_validate_instructions_AnyMethod(r) ==
    IF DataRule_validate_instructions(r) /= "ok" THEN DataRule_validate_instructions(r)
    ELSE IF r.column = "" THEN "'column' property not set"
    ELSE IF r.range = 0
    THEN "'range' property must be either greater than or less than 0"
    ELSE "ok"

DateVarianceRule_validate_instructions(r) ==
    IF DataRule_validate_instructions(r) /= "ok" THEN DataRule_validate_instructions(r)
    ELSE IF r.column = "" THEN "'column' property not set"
    ELSE IF r.range = 0
    THEN "'range' property must be either greater than or less than 0"
    ELSE IF r.method /= "simple" /\ r.method /= "complete"
    THEN "'method' must be either set to 'simple' or 'complete'"
    ELSE "ok"

AdHocCommandRule_validate_instructions(r) ==
    IF Rule_validate_instructions(r) /= "ok" THEN Rule_validate_instructions(r)
    ELSE IF r.command = "" THEN "ValueError"
    ELSE "ok"

AdHocScriptRule_validate_instructions(r) ==
    IF Rule_validate_instructions(r) /= "ok" THEN Rule_validate_instructions(r)
    ELSE IF ~exists(r.script) THEN "FileNotFoundError"
    ELSE "ok"

DisableTriggerRule_validate_instructions(r) ==
    IF r.database = "*" THEN "ValueError"
    ELSE IF r.table = "*" THEN "ValueError"
    ELSE "ok"

EnableTriggerRule_validate_instructions(r) ==
    IF r.database = "*" THEN "ValueError"
    ELSE IF r.table = "*" THEN "ValueError"
    ELSE "ok"

DisableCheckConstraintRule_validate_instructions_DatabaseOnly(r) ==
    IF r.database = "*" THEN "ValueError"
    ELSE "ok"

DisableCheckConstraintRule_validate_instructions(r) ==
    IF r.database = "*" THEN "ValueError"
    ELSE IF r.table = "*" THEN "ValueError"
    ELSE "ok"

EnableCheckConstraintRule_validate_instructions(r) ==
    IF r.database = "*" THEN "ValueError"
    ELSE IF r.table = "*" THEN "ValueError"
    ELSE "ok"

DisableForeignKeyRule_validate_instructions(r) ==
    IF r.database = "*" THEN "ValueError"
    ELSE IF r.table = "*" THEN "ValueError"
    ELSE "ok"

EnableForeignKeyRule_validate_instructions(r) ==
    IF r.database = "*" THEN "ValueError"
    ELSE IF r.table = "*" THEN "ValueError"
    ELSE "ok"

\* dynamic dispatch of rule.validate_instructions()
validate_instructions(r) ==
    CASE r.class = "FakeStringSubstitutionRule" -> FakeStringSubstitutionRule_validate_instructions(r)
      [] r.class = "StaticStringSubstitutionRule" -> StaticStringSubstitutionRule_validate_instructions(r)
      [] r.class = "FakeSsnSubstitutionRule" -> FakeSsnSubstitutionRule_validate_instructions(r)
      [] r.class = "DateVarianceRule" -> DateVarianceRule_validate_instructions(r)
      [] r.class = "TruncateTableRule" -> DataRule_validate_instructions(r)
      [] r.class = "DeleteRowsRule" -> DataRule_validate_instructions(r)
      [] r.class = "AdHocCommandRule" -> AdHocCommandRule_validate_instructions(r)
      [] r.class = "AdHocScriptRule" -> AdHocScriptRule_validate_instructions(r)
      [] r.class = "DisableTriggerRule" -> DisableTriggerRule_validate_instructions(r)
      [] r.class = "EnableTriggerRule" -> EnableTriggerRule_validate_instructions(r)
      [] r.class = "DisableCheckConstraintRule" -> DisableCheckConstraintRule_validate_instructions(r)
      [] r.class = "EnableCheckConstraintRule" -> EnableCheckConstraintRule_validate_instructions(r)
      [] r.class = "DisableForeignKeyRule" -> DisableForeignKeyRule_validate_instructions(r)
      [] r.class = "EnableForeignKeyRule" -> EnableForeignKeyRule_validate_instructions(r)

\* the messages of the ValueErrors the data rules raise
ValueErrorMessages ==
    {"'database' property not set", "'schema' property not set",
     "'table' property not set", "'column' property not set",
     "'data_set_key' property not set",
     "'ignore_null' property must be either 'yes' or 'no'",
     "'range' property must be either greater than or less than 0",
     "'method' must be either set to 'simple' or 'complete'"}

\* the class of the exception an outcome of validate_instructions() stands for
ExceptionOf(outcome) ==
    IF outcome \in ValueErrorMessages THEN "ValueError" ELSE outcome

\* the object the constructor call of a branch builds
ConstructRule(instructions) ==
    ("class" :> RuleClass(instructions.rule)) @@
    [k \in RequiredFields(instructions.rule) |-> instructions[k]]

create_rule_FillsMissing(instructions) ==
    IF "rule" \notin DOMAIN instructions
    THEN [status |-> "KeyError"]
    ELSE IF instructions.rule \notin RuleNames
    THEN [status |-> "ValueError"]
    ELSE LET filled == [k \in RequiredFields(instructions.rule) \cup {"rule"} |->
                          IF k \in DOMAIN instructions THEN instructions[k]
                          ELSE IF k = "group" THEN 1 ELSE ""]
             rule == ConstructRule(filled)
         IN IF validate_instructions(rule) /= "ok"
            THEN [status |-> ExceptionOf(validate_instructions(rule))]
            ELSE [status |-> "ok", rule |-> rule]

create_rule_Unvalidated(instructions) ==
    IF "rule" \notin DOMAIN instructions
    THEN [status |-> "KeyError"]
    ELSE IF instructions.rule \notin RuleNames
    THEN [status |-> "ValueError"]
    ELSE IF ~(RequiredFields(instructions.rule) \subseteq DOMAIN instructions)
    THEN [status |-> "KeyError"]
    ELSE [status |-> "ok", rule |-> ConstructRule(instructions)]

\* RulesFactory.create_rule: [status, rule]; status is "ok" or the exception
create_rule(instructions) ==
    IF "rule" \notin DOMAIN instructions
    THEN [status |-> "KeyError"]
    ELSE IF instructions.rule \notin RuleNames
    THEN [status |-> "ValueError"]
    ELSE IF ~(RequiredFields(instructions.rule) \subseteq DOMAIN instructions)
    THEN [status |-> "KeyError"]
    ELSE LET rule == ConstructRule(instructions)
         IN IF validate_instructions(rule) /= "ok"
            THEN [status |-> ExceptionOf(validate_instructions(rule))]
            ELSE [status |-> "ok", rule |-> rule]

\* ------------------------------------------------------------------------
\* Python values and strings.  A value is a record tagged with its kind; a
\* string built by an f-string is the sequence of its pieces ("text"), the
\* pieces substituted for {...} being elements of their own.
\* ------------------------------------------------------------------------
PyNone == [kind |-> "None", int |-> 0, str |-> ""]
PyInt(n) == [kind |-> "int", int |-> n, str |-> ""]
PyStr(x) == [kind |-> "str", int |-> 0, str |-> x]
\* a datetime, as the number of its day
PyDate(d) == [kind |-> "datetime", int |-> d, str |-> ""]

\* a dict (a row read from a table) is the sequence of its items in order
PyDict(items) == [kind |-> "dict", items |-> items]
PyList(items) == [kind |-> "list", items |-> items]
PyNoneObject == [kind |-> "None", items |-> <<>>]

Item(column, value) == [column |-> column, value |-> value]

\* record[column]
Lookup(record, column) ==
    LET k == CHOOSE j \in 1..Len(record.items) : record.items[j].column = column
    IN record.items[k].value

DigitChars == <<"0", "1", "2", "3", "4", "5", "6", "7", "8", "9">>

RECURSIVE Decimal(_)
Decimal(n) ==
    IF n < 10 THEN <<DigitChars[n + 1]>>
    ELSE Decimal(n \div 10) \o <<DigitChars[(n % 10) + 1]>>

\* str() of an int: a sign and the decimal digits
IntText(n) == IF n < 0 THEN <<"-">> \o Decimal(0 - n) ELSE Decimal(n)

\* a str held by a rule, as text
StrText(x) == IF x = "" THEN <<>> ELSE <<x>>

\* what an f-string substitutes for {value}
Format(value) ==
    CASE value.kind = "None" -> <<"None">>
      [] value.kind = "int" -> IntText(value.int)
      [] value.kind = "str" -> StrText(value.str)
      [] value.kind = "datetime" -> <<"datetime">> \o IntText(value.int)

\* ------------------------------------------------------------------------
\* SQL clause builders of the gateway (database_gateway.py)
\* ------------------------------------------------------------------------
\* Constants.DEFAULT_WHERE_CLAUSE: the always-true predicate clauses start from
DEFAULT_WHERE_CLAUSE == <<"where 1 = 1">>

\* one iteration of the loop of lines 153-160
WhereCondition(column, value) ==
    IF value.kind = "None"
    THEN <<" and [", column, "] is NULL ">>
    ELSE IF value.kind = "int"
    THEN <<" and [", column, "] = ">> \o Format(value) \o <<" ">>
    ELSE <<" and [", column, "] = '">> \o Format(value) \o <<"' ">>

RECURSIVE WhereConditions(_)
WhereConditions(items) ==
    IF items = <<>> THEN <<>>
    ELSE WhereCondition(items[1].column, items[1].value)
         \o WhereConditions(Tail(items))

\* {x: record[x] for x in primary_key}
RestrictToKey(record, primary_key) ==
    PyDict([k \in 1..Len(primary_key.items) |->
               Item(primary_key.items[k], Lookup(record, primary_key.items[k]))])

generate_where_clause_from_record_IgnoresKey(record, primary_key) ==
    IF record.kind = "None"
    THEN [status |-> "ValueError", text |-> <<>>]
    ELSE [status |-> "ok",
          text |-> DEFAULT_WHERE_CLAUSE \o WhereConditions(record.items)]

generate_where_clause_from_record(record, primary_key) ==
    IF record.kind = "None"
    THEN [status |-> "ValueError", text |-> <<>>]
    ELSE LET reduced == IF primary_key.kind /= "None" /\ primary_key.items /= <<>>
                        THEN RestrictToKey(record, primary_key)
                        ELSE record
         IN [status |-> "ok",
             text |-> DEFAULT_WHERE_CLAUSE \o WhereConditions(reduced.items)]

generate_update_set_clause_for_column(column, replacement_value) ==
    IF replacement_value.kind = "None"
    THEN <<" set [", column, "] = NULL">>
    ELSE IF replacement_value.kind = "int"
    THEN <<" set [", column, "] = ">> \o Format(replacement_value) \o <<" ">>
    ELSE <<" set [", column, "] = '">> \o Format(replacement_value) \o <<"'">>

append_where_column_is_not_null_Unchanged(column, where_clause) ==
    IF where_clause = <<>> THEN DEFAULT_WHERE_CLAUSE ELSE where_clause

\* lines 173-177
append_where_column_is_not_null(column, where_clause) ==
    (IF where_clause = <<>> THEN DEFAULT_WHERE_CLAUSE ELSE where_clause)
    \o <<" and [", column, "] is not null ">>

\* ------------------------------------------------------------------------
\* Database context of SQL Server (database_context.py): how a call ends when
\* the driver fails.  "connect": pymssql.connect raises; "statement": the
\* cursor raises on the statement or on the commit.
\* ------------------------------------------------------------------------
DriverFailures == {"none", "connect", "statement"}

\* lines 49-77: try ... finally, nothing is caught
SqlServerDatabaseContext_query(failure) ==
    IF failure = "none" THEN "returned" ELSE "raised"

\* lines 79-106: connect() is outside the try; the except clause of line 101
\* prints what the statement raised and does not raise again
SqlServerDatabaseContext_execute(failure) ==
    IF failure = "connect" THEN "raised" ELSE "returned"

\* ------------------------------------------------------------------------
\* execute() of the rules that make a single gateway call; the value is the
\* sequence of gateway calls the method makes
\* ------------------------------------------------------------------------
GatewayCall(op, args) == [op |-> op, args |-> args]

DisableTriggerRule_execute(r) ==
    IF r.schema = "*"
    THEN <<GatewayCall("disable_all_triggers_for_database", <<r.database>>)>>
    ELSE IF r.trigger = "*"
    THEN <<GatewayCall("disable_all_triggers_for_table",
                       <<r.database, r.schema, r.table>>)>>
    ELSE <<GatewayCall("disable_single_trigger_for_table",
                       <<r.database, r.schema, r.table, r.trigger>>)>>

EnableTriggerRule_execute(r) ==
    IF r.schema = "*"
    THEN <<GatewayCall("enable_all_triggers_for_database", <<r.database>>)>>
    ELSE IF r.trigger = "*"
    THEN <<GatewayCall("enable_all_triggers_for_table",
                       <<r.database, r.schema, r.table>>)>>
    ELSE <<GatewayCall("enable_single_trigger_for_table",
                       <<r.database, r.schema, r.table, r.trigger>>)>>

DisableCheckConstraintRule_execute(r) ==
    IF r.schema = "*"
    THEN <<GatewayCall("disable_all_check_constraints_for_database", <<r.database>>)>>
    ELSE IF r.check_constraint = "*"
    THEN <<GatewayCall("disable_all_check_constraints_for_table",
                       <<r.database, r.schema, r.table>>)>>
    ELSE <<GatewayCall("disable_single_check_constraint_for_table",
                       <<r.database, r.schema, r.table, r.check_constraint>>)>>

EnableCheckConstraintRule_execute(r) ==
    IF r.schema = "*"
    THEN <<GatewayCall("enable_all_check_constraints_for_database", <<r.database>>)>>
    ELSE IF r.check_constraint = "*"
    THEN <<GatewayCall("enable_all_check_constraints_for_table",
                       <<r.database, r.schema, r.table>>)>>
    ELSE <<GatewayCall("enable_single_check_constraint_for_table",
                       <<r.database, r.schema, r.table, r.check_constraint>>)>>

DisableForeignKeyRule_execute(r) ==
    IF r.schema = "*"
    THEN <<GatewayCall("disable_all_foreign_keys_for_database", <<r.database>>)>>
    ELSE IF r.foreign_key = "*"
    THEN <<GatewayCall("disable_all_foreign_keys_for_table",
                       <<r.database, r.schema, r.table>>)>>
    ELSE <<GatewayCall("disable_single_foreign_key_for_table",
                       <<r.database, r.schema, r.table, r.foreign_key>>)>>

EnableForeignKeyRule_execute_NameFirst(r) ==
    IF r.foreign_key = "*"
    THEN <<GatewayCall("enable_all_foreign_keys_for_table",
                       <<r.database, r.schema, r.table>>)>>
    ELSE IF r.schema = "*"
    THEN <<GatewayCall("enable_all_foreign_keys_for_database", <<r.database>>)>>
    ELSE <<GatewayCall("enable_single_foreign_key_for_table",
                       <<r.database, r.schema, r.table, r.foreign_key>>)>>

EnableForeignKeyRule_execute(r) ==
    IF r.schema = "*"
    THEN <<GatewayCall("enable_all_foreign_keys_for_database", <<r.database>>)>>
    ELSE IF r.foreign_key = "*"
    THEN <<GatewayCall("enable_all_foreign_keys_for_table",
                       <<r.database, r.schema, r.table>>)>>
    ELSE <<GatewayCall("enable_single_foreign_key_for_table",
                       <<r.database, r.schema, r.table, r.foreign_key>>)>>

AdHocCommandRule_execute(r) ==
    <<GatewayCall("execute_command", <<r.command>>)>>

\* the script's contents are passed on; the path stands for them
AdHocScriptRule_execute(r) ==
    <<GatewayCall("execute_command", <<r.script>>)>>

TruncateTableRule_execute(r) ==
    <<GatewayCall("truncate_table", <<r.database, r.schema, r.table>>)>>

DeleteRowsRule_execute(r) ==
    <<GatewayCall("delete_rows", <<r.database, r.schema, r.table, r.where_clause>>)>>

StaticStringSubstitutionRule_execute_Verbatim(r) ==
    <<GatewayCall("update_rows",
                  <<r.database, r.schema, r.table,
                    generate_update_set_clause_for_column(r.column, r.static_value),
                    StrText(r.where_clause)>>)>>

\* data_rules.py lines 107-119
StaticStringSubstitutionRule_execute(r) ==
    LET replacement_value == IF r.static_value /= PyStr("NULL")
                             THEN r.static_value
                             ELSE PyNone
    IN <<GatewayCall("update_rows",
                     <<r.database, r.schema, r.table,
                       generate_update_set_clause_for_column(r.column,
                                                             replacement_value),
                       StrText(r.where_clause)>>)>>

\* dynamic dispatch of rule.execute() for the single-call rules
execute(r) ==
    CASE r.class = "TruncateTableRule" -> TruncateTableRule_execute(r)
      [] r.class = "StaticStringSubstitutionRule" -> StaticStringSubstitutionRule_execute(r)
      [] r.class = "DeleteRowsRule" -> DeleteRowsRule_execute(r)
      [] r.class = "AdHocCommandRule" -> AdHocCommandRule_execute(r)
      [] r.class = "AdHocScriptRule" -> AdHocScriptRule_execute(r)
      [] r.class = "DisableTriggerRule" -> DisableTriggerRule_execute(r)
      [] r.class = "EnableTriggerRule" -> EnableTriggerRule_execute(r)
      [] r.class = "DisableCheckConstraintRule" -> DisableCheckConstraintRule_execute(r)
      [] r.class = "EnableCheckConstraintRule" -> EnableCheckConstraintRule_execute(r)
      [] r.class = "DisableForeignKeyRule" -> DisableForeignKeyRule_execute(r)
      [] r.class = "EnableForeignKeyRule" -> EnableForeignKeyRule_execute(r)

\* ------------------------------------------------------------------------
\* Instruction sets
\* ------------------------------------------------------------------------
\* an instruction from which key k is absent
Without(instructions, k) ==
    [f \in (DOMAIN instructions) \ {k} |-> instructions[f]]

ObjectInstructions(name, field) ==
    { ("rule" :> name) @@ ("group" :> g) @@ ("database" :> d) @@
      ("schema" :> s) @@ ("table" :> t) @@ (field :> o) :
        g \in {0, 1}, d \in {"db", "*"}, s \in {"dbo", "*"},
        t \in {"orders", "*"}, o \in {"obj", "*"} }

DataInstructions ==
    { [rule |-> n, group |-> g, database |-> d, schema |-> s, table |-> t,
       where_clause |-> ""] :
        n \in {"truncate_table", "delete_rows"}, g \in {0, 1},
        d \in {"db", ""}, s \in {"dbo", ""}, t \in {"orders", ""} }

\* static values: the string "NULL", other strings, an integer
StaticValues == {PyStr("NULL"), PyStr("null"), PyStr("Ann"), PyInt(5), PyInt(-12)}

StaticInstructions ==
    { [rule |-> "static_string_substitution", group |-> 1, database |-> "db",
       schema |-> "dbo", table |-> "orders", column |-> c, static_value |-> v,
       where_clause |-> w] :
        c \in {"name", ""}, v \in StaticValues, w \in {"", "where id > 3"} }

AdHocInstructions ==
    { [rule |-> "adhoc_command", group |-> g, command |-> c] :
        g \in {0, 1}, c \in {"checkpoint", ""} }
    \cup
    { [rule |-> "adhoc_script", group |-> g, script |-> p] :
        g \in {0, 1}, p \in {"cleanup.sql", "missing.sql"} }

WellFormedInstructions ==
    ObjectInstructions("disable_trigger", "trigger")
    \cup ObjectInstructions("enable_trigger", "trigger")
    \cup ObjectInstructions("disable_check_constraint", "check_constraint")
    \cup ObjectInstructions("enable_check_constraint", "check_constraint")
    \cup ObjectInstructions("disable_foreign_key", "foreign_key")
    \cup ObjectInstructions("enable_foreign_key", "foreign_key")
    \cup DataInstructions
    \cup StaticInstructions
    \cup AdHocInstructions

\* every instruction a single-rule run is tried on: the well-formed ones,
\* those with one key missing, and one with an unknown discriminator
AllInstructions ==
    WellFormedInstructions
    \cup { Without(ins, k) : ins \in AdHocInstructions, k \in {"rule", "group", "command"} }
    \cup { Without(ins, "table") : ins \in DataInstructions }
    \cup { [rule |-> "shuffle", group |-> 1] }

\* the instructions the scheduler runs are drawn from
SchedulerInstructions ==
    { [rule |-> "disable_trigger", group |-> g, database |-> "db",
       schema |-> "*", table |-> "orders", trigger |-> "*"] : g \in {1, 2, 5} }
    \cup
    { [rule |-> "truncate_table", group |-> 2, database |-> "db",
       schema |-> "dbo", table |-> "orders"],
      [rule |-> "enable_trigger", group |-> 0, database |-> "db",
       schema |-> "dbo", table |-> "orders", trigger |-> "audit"],
      [rule |-> "truncate_table", group |-> 1, database |-> "db",
       schema |-> "dbo", table |-> ""],
      [rule |-> "adhoc_command", group |-> 2] }

RECURSIVE SeqsUpTo(_, _)
SeqsUpTo(S, n) ==
    IF n = 0 THEN {<<>>}
    ELSE LET shorter == SeqsUpTo(S, n - 1)
         IN shorter \cup { Append(q, x) : q \in shorter, x \in S }

\* ------------------------------------------------------------------------
\* Group scheduler (masker.py, main)
\* ------------------------------------------------------------------------
Rules == 1..Len(instruction_set)

RECURSIVE SeqMax(_)
SeqMax(s) ==
    IF Len(s) = 1 THEN s[1]
    ELSE LET m == SeqMax(Tail(s)) IN IF s[1] >= m THEN s[1] ELSE m

RECURSIVE RemoveFirst(_, _)
RemoveFirst(s, x) ==
    IF s = <<>> THEN <<>>
    ELSE IF s[1] = x THEN Tail(s)
    ELSE <<s[1]>> \o RemoveFirst(Tail(s), x)

RECURSIVE SortAscending(_)
SortAscending(s) ==
    IF s = <<>> THEN <<>>
    ELSE SortAscending(RemoveFirst(s, SeqMax(s))) \o <<SeqMax(s)>>

\* groups.sort(reverse=True)
RECURSIVE SortReverse(_)
SortReverse(s) ==
    IF s = <<>> THEN <<>>
    ELSE <<SeqMax(s)>> \o SortReverse(RemoveFirst(s, SeqMax(s)))

InSeq(x, s) == \E k \in 1..Len(s) : s[k] = x

\* [r for r in rule_controller if r.group == group], as indices
RECURSIVE RulesOfGroup(_, _, _)
RulesOfGroup(rc, g, k) ==
    IF k > Len(rc) THEN <<>>
    ELSE IF rc[k].group = g THEN <<k>> \o RulesOfGroup(rc, g, k + 1)
    ELSE RulesOfGroup(rc, g, k + 1)

JoinReturnsAtOnce(t) == TRUE

JoinReturnsWhenSiblingRaised(t) ==
    \/ thread[t] \in {"returned", "raised"}
    \/ \E u \in DOMAIN thread : thread[u] = "raised"

JoinReturnsOnlyOnSuccess(t) == thread[t] = "returned"

\* started_thread.join() returns once the thread has ended, however it ended
JoinReturns(t) == thread[t] \in {"returned", "raised"}

AfterCreateSkipsInvalid(status) == "create"

\* what the rule-building loop does with the outcome of create_rule: an
\* exception leaves main, otherwise the loop goes on
AfterCreate(status) == IF status = "ok" THEN "create" ELSE "aborted"

\* lines 30-35: one iteration of the rule-building loop
CreateRule ==
    /\ pc = "create"
    /\ i <= Len(instruction_set)
    /\ LET created == create_rule(instruction_set[i])
       IN /\ pc' = AfterCreate(created.status)
          /\ i' = IF AfterCreate(created.status) = "create" THEN i + 1 ELSE i
          /\ IF created.status = "ok"
             THEN /\ validated' = [validated EXCEPT ![i] = @ + 1]
                  /\ groups' = IF InSeq(created.rule.group, groups)
                               THEN groups
                               ELSE Append(groups, created.rule.group)
                  /\ rule_controller' = Append(rule_controller, created.rule)
             ELSE UNCHANGED <<validated, groups, rule_controller>>
    /\ UNCHANGED <<instruction_set, group, rules_in_group, started_threads,
                   thread, gateway_calls, trace, ssn, local>>

NoRules_Continues ==
    /\ pc = "create"
    /\ i > Len(instruction_set)
    /\ rule_controller = <<>>
    /\ pc' = "pop"
    /\ UNCHANGED <<instruction_set, i, rule_controller, groups, group,
                   rules_in_group, started_threads, thread, validated,
                   gateway_calls, trace, ssn, local>>

\* lines 37-39: no rules, sys.exit()
NoRules ==
    /\ pc = "create"
    /\ i > Len(instruction_set)
    /\ rule_controller = <<>>
    /\ pc' = "exit"
    /\ UNCHANGED <<instruction_set, i, rule_controller, groups, group,
                   rules_in_group, started_threads, thread, validated,
                   gateway_calls, trace, ssn, local>>

\* line 44
SortGroups ==
    /\ pc = "create"
    /\ i > Len(instruction_set)
    /\ rule_controller /= <<>>
    /\ groups' = SortReverse(groups)
    /\ pc' = "pop"
    /\ UNCHANGED <<instruction_set, i, rule_controller, group, rules_in_group,
                   started_threads, thread, validated, gateway_calls, trace, ssn, local>>

\* lines 46-49: groups.pop() takes the last element
PopGroup ==
    /\ pc = "pop"
    /\ groups /= <<>>
    /\ group' = groups[Len(groups)]
    /\ groups' = SubSeq(groups, 1, Len(groups) - 1)
    /\ rules_in_group' = RulesOfGroup(rule_controller, groups[Len(groups)], 1)
    /\ started_threads' = <<>>
    /\ i' = 1
    /\ pc' = "start"
    /\ UNCHANGED <<instruction_set, rule_controller, thread, validated,
                   gateway_calls, trace, ssn, local>>

\* line 46: the list of groups is empty, main returns
Finish ==
    /\ pc = "pop"
    /\ groups = <<>>
    /\ pc' = "done"
    /\ UNCHANGED <<instruction_set, i, rule_controller, groups, group,
                   rules_in_group, started_threads, thread, validated,
                   gateway_calls, trace, ssn, local>>

StartThread_AfterSiblingsEnded ==
    /\ pc = "start"
    /\ i <= Len(rules_in_group)
    /\ \A k \in 1..Len(started_threads) : JoinReturns(started_threads[k])
    /\ thread' = [thread EXCEPT ![rules_in_group[i]] = "running"]
    /\ trace' = Append(trace, <<"start", rules_in_group[i]>>)
    /\ started_threads' = Append(started_threads, rules_in_group[i])
    /\ i' = i + 1
    /\ UNCHANGED <<instruction_set, pc, rule_controller, groups, group,
                   rules_in_group, validated, gateway_calls, ssn, local>>

\* lines 51-55: start the thread of the next rule of the group
StartThread ==
    /\ pc = "start"
    /\ i <= Len(rules_in_group)
    /\ thread' = [thread EXCEPT ![rules_in_group[i]] = "running"]
    /\ trace' = Append(trace, <<"start", rules_in_group[i]>>)
    /\ started_threads' = Append(started_threads, rules_in_group[i])
    /\ i' = i + 1
    /\ UNCHANGED <<instruction_set, pc, rule_controller, groups, group,
                   rules_in_group, validated, gateway_calls, ssn, local>>

\* line 51: every rule of the group has a thread
AllStarted ==
    /\ pc = "start"
    /\ i > Len(rules_in_group)
    /\ pc' = "join"
    /\ i' = 1
    /\ UNCHANGED <<instruction_set, rule_controller, groups, group,
                   rules_in_group, started_threads, thread, validated,
                   gateway_calls, trace, ssn, local>>

\* lines 57-58: join the next started thread
JoinThread ==
    /\ pc = "join"
    /\ i <= Len(started_threads)
    /\ JoinReturns(started_threads[i])
    /\ i' = i + 1
    /\ UNCHANGED <<instruction_set, pc, rule_controller, groups, group,
                   rules_in_group, started_threads, thread, validated,
                   gateway_calls, trace, ssn, local>>

AllJoined_StopsAfterFailure ==
    /\ pc = "join"
    /\ i > Len(started_threads)
    /\ pc' = IF \E k \in 1..Len(started_threads) : thread[started_threads[k]] = "raised"
             THEN "done" ELSE "pop"
    /\ UNCHANGED <<instruction_set, i, rule_controller, groups, group,
                   rules_in_group, started_threads, thread, validated,
                   gateway_calls, trace, ssn, local>>

\* line 57: all threads joined, back to the head of the while loop
AllJoined ==
    /\ pc = "join"
    /\ i > Len(started_threads)
    /\ pc' = "pop"
    /\ UNCHANGED <<instruction_set, i, rule_controller, groups, group,
                   rules_in_group, started_threads, thread, validated,
                   gateway_calls, trace, ssn, local>>

\* the calls of execute(), tagged with the rule that makes them
CallsOf(t) ==
    [k \in 1..Len(execute(rule_controller[t])) |->
        [rule |-> t, call |-> execute(rule_controller[t])[k]]]

\* the thread of rule t runs execute() and the gateway call succeeds
ExecuteReturns(t) ==
    /\ thread[t] = "running"
    /\ gateway_calls' = gateway_calls \o CallsOf(t)
    /\ thread' = [thread EXCEPT ![t] = "returned"]
    /\ trace' = Append(trace, <<"return", t>>)
    /\ UNCHANGED <<instruction_set, pc, i, rule_controller, groups, group,
                   rules_in_group, started_threads, validated, ssn, local>>

\* the thread of rule t runs execute() and the driver raises in the call
ExecuteRaises(t) ==
    /\ thread[t] = "running"
    /\ gateway_calls' = gateway_calls \o CallsOf(t)
    /\ thread' = [thread EXCEPT ![t] = "raised"]
    /\ trace' = Append(trace, <<"raise", t>>)
    /\ UNCHANGED <<instruction_set, pc, i, rule_controller, groups, group,
                   rules_in_group, started_threads, validated, ssn, local>>

SsnIdle == [pc |-> "idle"]
LocalIdle == [pc |-> "idle"]

InitCommon ==
    /\ i = 1
    /\ rule_controller = <<>>
    /\ groups = <<>>
    /\ group = 0
    /\ rules_in_group = <<>>
    /\ started_threads = <<>>
    /\ thread = [t \in Rules |-> "new"]
    /\ validated = [t \in Rules |-> 0]
    /\ gateway_calls = <<>>
    /\ trace = <<>>
    /\ ssn = SsnIdle
    /\ local = LocalIdle

Init ==
    /\ instruction_set \in SeqsUpTo(SchedulerInstructions, MaxInstr)
    /\ pc = "create"
    /\ InitCommon

Next ==
    \/ CreateRule
    \/ NoRules
    \/ SortGroups
    \/ PopGroup
    \/ Finish
    \/ StartThread
    \/ AllStarted
    \/ JoinThread
    \/ AllJoined
    \/ \E t \in Rules : ExecuteReturns(t)
    \/ \E t \in Rules : ExecuteRaises(t)


\* ------------------------------------------------------------------------
\* Sequential pipeline (main.py, main)
\* ------------------------------------------------------------------------
\* lines 13-16: create_rule (which validates), validate_instructions, append
MainCreateRule ==
    /\ pc = "m_create"
    /\ i <= Len(instruction_set)
    /\ LET created == create_rule(instruction_set[i])
       IN IF created.status /= "ok"
          THEN /\ pc' = "aborted"
               /\ UNCHANGED <<i, validated, rule_controller>>
          ELSE IF validate_instructions(created.rule) /= "ok"
          THEN /\ pc' = "aborted"
               /\ validated' = [validated EXCEPT ![i] = @ + 2]
               /\ UNCHANGED <<i, rule_controller>>
          ELSE /\ validated' = [validated EXCEPT ![i] = @ + 2]
               /\ rule_controller' = Append(rule_controller, created.rule)
               /\ i' = i + 1
               /\ pc' = "m_create"
    /\ UNCHANGED <<instruction_set, groups, group, rules_in_group,
                   started_threads, thread, gateway_calls, trace, ssn, local>>

\* line 18: the first loop is over
MainAllCreated ==
    /\ pc = "m_create"
    /\ i > Len(instruction_set)
    /\ pc' = "m_execute"
    /\ i' = 1
    /\ UNCHANGED <<instruction_set, rule_controller, groups, group,
                   rules_in_group, started_threads, thread, validated,
                   gateway_calls, trace, ssn, local>>

\* lines 18-20: rule.execute() returns
MainExecuteReturns ==
    /\ pc = "m_execute"
    /\ i <= Len(rule_controller)
    /\ gateway_calls' = gateway_calls \o CallsOf(i)
    /\ thread' = [thread EXCEPT ![i] = "returned"]
    /\ trace' = trace \o <<(<<"start", i>>), (<<"return", i>>)>>
    /\ i' = i + 1
    /\ UNCHANGED <<instruction_set, pc, rule_controller, groups, group,
                   rules_in_group, started_threads, validated, ssn, local>>

\* lines 18-20: rule.execute() raises, and the exception leaves main
MainExecuteRaises ==
    /\ pc = "m_execute"
    /\ i <= Len(rule_controller)
    /\ gateway_calls' = gateway_calls \o CallsOf(i)
    /\ thread' = [thread EXCEPT ![i] = "raised"]
    /\ trace' = trace \o <<(<<"start", i>>), (<<"raise", i>>)>>
    /\ pc' = "m_raised"
    /\ UNCHANGED <<instruction_set, i, rule_controller, groups, group,
                   rules_in_group, started_threads, validated, ssn, local>>

\* line 18: the second loop is over
MainFinish ==
    /\ pc = "m_execute"
    /\ i > Len(rule_controller)
    /\ pc' = "done"
    /\ UNCHANGED <<instruction_set, i, rule_controller, groups, group,
                   rules_in_group, started_threads, thread, validated,
                   gateway_calls, trace, ssn, local>>

\* ------------------------------------------------------------------------
\* The table a per-row rule works on, and what the server selects from it
\* ------------------------------------------------------------------------
\* where-clauses an instruction can carry: none, and one that leaves row 1 out
WhereClauses == {"", "where id > 1"}

\* the server's reading of an instruction's where-clause on a row
Matches(where_clause, row) ==
    IF where_clause = "where id > 1" THEN Lookup(row, "id").int > 1 ELSE TRUE

\* the text restricts the rows to those whose column is not null
HasNotNullCondition(text, column) ==
    \E p \in 1..Len(text) :
        /\ p + 2 <= Len(text)
        /\ SubSeq(text, p, p + 2) = <<" and [", column, "] is not null ">>

\* tables of n rows with an integer key and one masked column
TablesOver(values, column, n) ==
    { [k \in 1..n |-> PyDict(<<Item("id", PyInt(k)), Item(column, v[k])>>)] :
        v \in [1..n -> values] }

RECURSIVE SelectRows(_, _, _, _)
\* select * from the table, where text is the clause the gateway was given
\* and where_clause the part of it that came with the instruction
SelectRows(table, where_clause, text, column) ==
    IF table = <<>> THEN <<>>
    ELSE (IF /\ Matches(where_clause, table[1])
             /\ (HasNotNullCondition(text, column)
                    => Lookup(table[1], column).kind /= "None")
          THEN <<table[1]>> ELSE <<>>)
         \o SelectRows(Tail(table), where_clause, text, column)

\* ------------------------------------------------------------------------
\* Fake-SSN substitution (data_rules.py, FakeSsnSubstitutionRule)
\* ------------------------------------------------------------------------
\* Constants.MAX_RETRY_ATTEMPTS
MAX_RETRY_ATTEMPTS == 10

itin_group_numbers ==
    {70, 71, 72, 73, 74, 75, 76, 77, 78, 79,
     80, 81, 82, 83, 84, 85, 86, 87, 88,
     90, 91, 92, 94, 95, 96, 97, 98, 99}

AllGroups == 0..99

\* the list choice() draws the group from when area >= 900
NonItinGroups == {x \in 0..99 : x \notin itin_group_numbers}

\* format spec 0<w>d: at least w digits, padded with zeros on the left
ZeroPad(n, w) ==
    IF Len(Decimal(n)) >= w THEN Decimal(n)
    ELSE [k \in 1..(w - Len(Decimal(n))) |-> "0"] \o Decimal(n)

\* the f-string of the return statement; a string is a sequence of characters
FormatSsn(area, grp, serial, seperator) ==
    ZeroPad(area, 3) \o seperator \o ZeroPad(grp, 2) \o seperator \o ZeroPad(serial, 4)

\* _generate_invalid_ssn, as a function of its random draws: the three
\* randint() results, the group choice() picks when area >= 900, and the
\* choice() between "group" and "serial"
generate_invalid_ssn(area, grp, serial, redrawn, zero_group_or_serial, seperator) ==
    IF area >= 900
    THEN FormatSsn(area, redrawn, serial, seperator)
    ELSE IF area < 900 /\ area \notin {666, 0}
    THEN FormatSsn(area,
                   IF zero_group_or_serial = "group" THEN 0 ELSE grp,
                   IF zero_group_or_serial = "serial" THEN 0 ELSE serial,
                   seperator)
    ELSE FormatSsn(area, grp, serial, seperator)

\* the values randint() and choice() are drawn from in the generator run
AreaDraws == 0..999
GroupDraws == 0..99
SerialDraws == {0, 1, 9999}

\* the draws of the rule run
SsnAreaDraws == {0, 123, 900}
SsnGroupDraws == {0, 70}
SsnSerialDraws == {0, 1234}
SsnRedrawDraws == {0, 69, 70, 93}

Seperators == {<<"-">>, <<>>}

\* the draws made only inside a branch: choice() over the non-ITIN groups
\* when area >= 900, choice(["group", "serial"]) in the elif branch
RedrawChoices(area, candidates) ==
    IF area >= 900 THEN NonItinGroups \cap candidates ELSE {0}

ZeroChoices(area) ==
    IF area < 900 /\ area \notin {666, 0} THEN {"group", "serial"} ELSE {"group"}

\* one call of _generate_invalid_ssn on its own
GenerateInvalidSsn ==
    /\ ssn.pc = "gen"
    /\ \E area \in AreaDraws, grp \in GroupDraws, serial \in SerialDraws :
       \E redrawn \in RedrawChoices(area, 0..99), which \in ZeroChoices(area) :
          ssn' = [pc |-> "generated",
                  seperator |-> ssn.seperator,
                  invalid_ssn |-> generate_invalid_ssn(area, grp, serial, redrawn,
                                                       which, ssn.seperator)]
    /\ UNCHANGED <<sched_vars, local>>

\* the rule's position and locals: records is the number of rows read,
\* row the row of the for loop, attempts the calls of the generator made
\* for this row, updates the values passed to update_rows so far; table is
\* the table at the time of the read and selected the rows the read returned
SsnLocals(seperator, ignore_null) ==
    [pc |-> "created", seperator |-> seperator, ignore_null |-> ignore_null,
     table |-> <<>>, select_where_clause |-> <<>>, selected |-> <<>>,
     records |-> 0, row |-> 0,
     list_of_used_invalid_ssns |-> <<>>, invalid_ssn |-> <<>>,
     is_unique |-> FALSE, retry_attempts |-> 0, attempts |-> 0,
     updates |-> <<>>, failed |-> <<>>]

\* the rule object of a run
SsnRuleOf(s) ==
    [class |-> "FakeSsnSubstitutionRule", database |-> "db", schema |-> "dbo",
     table |-> "people", column |-> "ssn", seperator |-> s.seperator,
     ignore_null |-> s.ignore_null]

\* the values of the ignore_null instruction
IgnoreNullValues == {"yes", "no", "", "YES"}

\* the values of the masked column before the run
SsnColumnValues == {PyNone, PyStr("078-05-1120")}

\* the tables of the run: n rows, the column null in the first of them
SsnTables(n) ==
    { table \in TablesOver(SsnColumnValues, "ssn", n) :
        \A k \in 1..n : (Lookup(table[k], "ssn").kind = "None") <=> (k = 1) }

\* what _generate_invalid_ssn can return in the rule run
SsnGenerated(seperator) ==
    UNION { { generate_invalid_ssn(area, grp, serial, redrawn, which, seperator) :
                redrawn \in RedrawChoices(area, SsnRedrawDraws),
                which \in ZeroChoices(area) } :
            area \in SsnAreaDraws, grp \in SsnGroupDraws, serial \in SsnSerialDraws }

\* Each step of execute() is given as the set of states a run in state s
\* can be in after it: empty when the step is not the next one of s.

\* lines 134-142: execute() runs on a rule whose instructions validated
SsnValidateOf(s) ==
    IF s.pc /= "created" THEN {}
    ELSE IF FakeSsnSubstitutionRule_validate_instructions(SsnRuleOf(s)) = "ok"
    THEN {[s EXCEPT !.pc = "begin"]}
    ELSE {[s EXCEPT !.pc = "invalid"]}

SsnValidate ==
    /\ ssn' \in SsnValidateOf(ssn)
    /\ UNCHANGED <<sched_vars, local>>

FakeSsnSubstitutionRule_select_where_clause_Unrestricted(r) == DEFAULT_WHERE_CLAUSE

\* lines 146-152: the where-clause of the read
FakeSsnSubstitutionRule_select_where_clause(r) ==
    IF r.ignore_null = "yes"
    THEN append_where_column_is_not_null(r.column, DEFAULT_WHERE_CLAUSE)
    ELSE DEFAULT_WHERE_CLAUSE

\* lines 145-165: the reads that precede the loop, on one of the tables
SsnReadRecordsOf(s, tables) ==
    IF s.pc /= "begin" THEN {}
    ELSE { LET text == FakeSsnSubstitutionRule_select_where_clause(SsnRuleOf(s))
               records == SelectRows(table, "", text, SsnRuleOf(s).column)
           IN [s EXCEPT !.pc = "for", !.table = table,
                        !.select_where_clause = text,
                        !.selected = records,
                        !.records = Len(records)] : table \in tables }

SsnReadRecords ==
    /\ ssn' \in SsnReadRecordsOf(ssn, UNION {SsnTables(n) : n \in 0..MaxRows})
    /\ UNCHANGED <<sched_vars, local>>

\* lines 168-171: next record of the for loop
SsnNextRecordOf(s) ==
    IF s.pc = "for" /\ s.row < s.records
    THEN {[s EXCEPT !.pc = "while", !.row = @ + 1, !.invalid_ssn = <<>>,
                    !.is_unique = FALSE, !.retry_attempts = 0, !.attempts = 0]}
    ELSE {}

SsnNextRecord ==
    /\ ssn' \in SsnNextRecordOf(ssn)
    /\ UNCHANGED <<sched_vars, local>>

RetriesExhaustedOneLate(retry_attempts) == retry_attempts > MAX_RETRY_ATTEMPTS

\* the test of line 173
RetriesExhausted(retry_attempts) == retry_attempts >= MAX_RETRY_ATTEMPTS

IsUsedNeverFound(invalid_ssn, used) == FALSE

\* the test of line 178
IsUsed(invalid_ssn, used) == InSeq(invalid_ssn, used)

SsnExhaustedOf_WritesCollided(s) ==
    IF s.pc = "while" /\ ~s.is_unique /\ RetriesExhausted(s.retry_attempts)
    THEN {[s EXCEPT !.pc = "exhausted",
                    !.updates = Append(@, [row |-> s.row, value |-> s.invalid_ssn])]}
    ELSE {}

\* lines 172-174: the retry bound is reached
SsnExhaustedOf(s) ==
    IF s.pc = "while" /\ ~s.is_unique /\ RetriesExhausted(s.retry_attempts)
    THEN {[s EXCEPT !.pc = "exhausted"]}
    ELSE {}

SsnExhausted ==
    /\ ssn' \in SsnExhaustedOf(ssn)
    /\ UNCHANGED <<sched_vars, local>>

\* lines 172-183: one iteration of the while loop, the generator returning
\* one of the given values
SsnAttemptOf(s, values) ==
    IF s.pc = "while" /\ ~s.is_unique /\ ~RetriesExhausted(s.retry_attempts)
    THEN { IF IsUsed(generated, s.list_of_used_invalid_ssns)
           THEN [s EXCEPT !.invalid_ssn = generated,
                          !.attempts = @ + 1,
                          !.retry_attempts = @ + 1,
                          !.is_unique = FALSE]
           ELSE [s EXCEPT !.invalid_ssn = generated,
                          !.attempts = @ + 1,
                          !.list_of_used_invalid_ssns = Append(@, generated),
                          !.is_unique = TRUE] : generated \in values }
    ELSE {}

SsnAttempt ==
    /\ ssn' \in SsnAttemptOf(ssn, SsnGenerated(ssn.seperator))
    /\ UNCHANGED <<sched_vars, local>>

\* lines 185-204: the update of the row succeeds
SsnUpdateRowsOf(s) ==
    IF s.pc = "while" /\ s.is_unique
    THEN IF s.invalid_ssn = <<>>
         THEN {[s EXCEPT !.pc = "raised"]}
         ELSE {[s EXCEPT !.pc = "for",
                         !.updates = Append(@, [row |-> s.row,
                                                value |-> s.invalid_ssn])]}
    ELSE {}

SsnUpdateRows ==
    /\ ssn' \in SsnUpdateRowsOf(ssn)
    /\ UNCHANGED <<sched_vars, local>>

\* lines 188-200: the driver raises in update_rows
SsnUpdateRaisesOf(s) ==
    IF s.pc = "while" /\ s.is_unique /\ s.invalid_ssn /= <<>>
    THEN {[s EXCEPT !.pc = "raised"]}
    ELSE {}

SsnUpdateRaises ==
    /\ ssn' \in SsnUpdateRaisesOf(ssn)
    /\ UNCHANGED <<sched_vars, local>>

\* lines 188-200: the driver fails on the update statement of update_rows;
\* the row keeps its value and execute() goes on as the context lets it
SsnUpdateFailsOf(s) ==
    IF s.pc = "while" /\ s.is_unique /\ s.invalid_ssn /= <<>>
    THEN IF SqlServerDatabaseContext_execute("statement") = "raised"
         THEN {[s EXCEPT !.pc = "raised", !.failed = Append(@, s.row)]}
         ELSE {[s EXCEPT !.pc = "for", !.failed = Append(@, s.row)]}
    ELSE {}

SsnUpdateFails ==
    /\ ssn' \in SsnUpdateFailsOf(ssn)
    /\ UNCHANGED <<sched_vars, local>>

\* line 168: no record is left
SsnReturnOf(s) ==
    IF s.pc = "for" /\ s.row >= s.records
    THEN {[s EXCEPT !.pc = "done"]}
    ELSE {}

SsnReturn ==
    /\ ssn' \in SsnReturnOf(ssn)
    /\ UNCHANGED <<sched_vars, local>>

\* ------------------------------------------------------------------------
\* Two fake-SSN rules of one group, each on its own thread (masker.py,
\* lines 50-57): local.runs holds the frame of either execute() call
\* ------------------------------------------------------------------------
Threads == {"A", "B"}

\* what _generate_invalid_ssn returns in the two-rule run: area 123, group
\* 70 and serial 1234 drawn, one of the last two then set to zero
PairGenerated(seperator) ==
    { generate_invalid_ssn(123, 70, 1234, 0, which, seperator) :
        which \in ZeroChoices(123) }

list_of_used_invalid_ssns_Shared(runs, me) ==
    runs["A"].list_of_used_invalid_ssns \o runs["B"].list_of_used_invalid_ssns

\* line 145: the list is a local of the execute() call that created it
list_of_used_invalid_ssns(runs, me) == runs[me].list_of_used_invalid_ssns

\* the frame of thread `me` as its code sees it
Frame(me) ==
    [local.runs[me] EXCEPT
        !.list_of_used_invalid_ssns = list_of_used_invalid_ssns(local.runs, me)]

\* thread `me` makes one of the steps in `successors`
PairStep(me, successors) ==
    /\ local.pc = "pair"
    /\ \E t \in successors : local' = [local EXCEPT !.runs[me] = t]
    /\ UNCHANGED <<sched_vars, ssn>>

\* every step execute() can make next from state s
SsnSuccessors(s, tables, values) ==
    SsnValidateOf(s) \cup SsnReadRecordsOf(s, tables) \cup SsnNextRecordOf(s)
    \cup SsnExhaustedOf(s) \cup SsnAttemptOf(s, values) \cup SsnUpdateRowsOf(s)
    \cup SsnUpdateRaisesOf(s) \cup SsnUpdateFailsOf(s) \cup SsnReturnOf(s)

\* one of the two threads makes its next step
PairThreadStep ==
    \E me \in Threads :
        PairStep(me, SsnSuccessors(Frame(me),
                                   UNION {SsnTables(n) : n \in 0..MaxRows},
                                   PairGenerated(Frame(me).seperator)))

InitIdle ==
    /\ instruction_set = <<>>
    /\ pc = "idle"
    /\ i = 1
    /\ rule_controller = <<>>
    /\ groups = <<>>
    /\ group = 0
    /\ rules_in_group = <<>>
    /\ started_threads = <<>>
    /\ thread = <<>>
    /\ validated = <<>>
    /\ gateway_calls = <<>>
    /\ trace = <<>>

InitSsn ==
    /\ InitIdle
    /\ ssn \in {SsnLocals(sep, ignore_null) :
                 sep \in Seperators, ignore_null \in IgnoreNullValues}
    /\ local = LocalIdle

NextSsn ==
    \/ SsnValidate
    \/ SsnReadRecords
    \/ SsnNextRecord
    \/ SsnExhausted
    \/ SsnAttempt
    \/ SsnUpdateRows
    \/ SsnUpdateRaises
    \/ SsnUpdateFails
    \/ SsnReturn

\* ------------------------------------------------------------------------
\* validate_instructions() on one data rule (data_rules.py, DataRule and
\* its subclasses)
\* ------------------------------------------------------------------------
\* the database, schema and table of the rules validated: set or empty
DataRuleTriples ==
    { [database |-> d, schema |-> sc, table |-> t] :
        d \in {"db", ""}, sc \in {"dbo", ""}, t \in {"people", ""} }

\* a rule of the class with the triple and its own fields
DataRuleOver(class, triple, fields) ==
    ("class" :> class) @@ ("database" :> triple.database) @@
    ("schema" :> triple.schema) @@ ("table" :> triple.table) @@ fields

\* the data rules validated: every class, its own fields valid or not
ValidatedRules ==
    { DataRuleOver("TruncateTableRule", t, <<>>) : t \in DataRuleTriples }
    \cup { DataRuleOver("DeleteRowsRule", t, [where_clause |-> w]) :
            t \in DataRuleTriples, w \in {"", "where id > 1"} }
    \cup { DataRuleOver("StaticStringSubstitutionRule", t,
                        [column |-> c, static_value |-> PyStr("Ann"),
                         where_clause |-> ""]) :
            t \in DataRuleTriples, c \in {"name", ""} }
    \cup { DataRuleOver("FakeStringSubstitutionRule", t,
                        [column |-> c, data_set_path |-> p, data_set_key |-> k,
                         where_clause |-> ""]) :
            t \in DataRuleTriples, c \in {"name", ""},
            p \in {"names.json", "missing.json"}, k \in {"first", ""} }
    \cup { DataRuleOver("FakeSsnSubstitutionRule", t,
                        [column |-> c, seperator |-> <<"-">>, ignore_null |-> n]) :
            t \in DataRuleTriples, c \in {"ssn", ""}, n \in IgnoreNullValues }
    \cup { DataRuleOver("DateVarianceRule", t,
                        [column |-> c, range |-> r, method |-> m,
                         where_clause |-> ""]) :
            t \in DataRuleTriples, c \in {"dob", ""}, r \in {0, MaxRange},
            m \in {"simple", "monthly"} }

\* rule.validate_instructions() of the rule built
ValidateInstructions ==
    /\ local.pc = "built"
    /\ local' = [local EXCEPT !.pc = "validated",
                              !.outcome = validate_instructions(local.rule)]
    /\ UNCHANGED <<sched_vars, ssn>>

InitValidate ==
    /\ InitIdle
    /\ ssn = SsnIdle
    /\ local \in {[pc |-> "built", rule |-> r, outcome |-> ""] : r \in ValidatedRules}

NextValidate == ValidateInstructions

InitPair ==
    /\ InitIdle
    /\ ssn = SsnIdle
    /\ local = [pc |-> "pair",
                runs |-> [me \in Threads |-> SsnLocals(<<"-">>, "no")]]

NextPair == PairThreadStep

InitGen ==
    /\ InitIdle
    /\ ssn \in {[pc |-> "gen", seperator |-> sep] : sep \in Seperators}
    /\ local = LocalIdle

NextGen == GenerateInvalidSsn

InitMain ==
    /\ instruction_set \in SeqsUpTo(SchedulerInstructions, MaxInstr)
    /\ pc = "m_create"
    /\ InitCommon

NextMain ==
    \/ MainCreateRule
    \/ MainAllCreated
    \/ MainExecuteReturns
    \/ MainExecuteRaises
    \/ MainFinish

\* ------------------------------------------------------------------------
\* One call of generate_where_clause_from_record (database_gateway.py)
\* ------------------------------------------------------------------------
\* columns of the table the rows are read from, in the order of the select
Columns == <<"id", "name", "note", "flag">>

ColumnValues == {PyNone, PyInt(5), PyStr("Ann"), PyDate(3)}

\* the rows with the first n columns
RowsOfWidth(n) ==
    { PyDict([k \in 1..n |-> Item(Columns[k], v[k])]) :
        v \in [1..n -> ColumnValues] }

RECURSIVE SubSeqs(_)
\* the subsequences of a sequence, order kept
SubSeqs(q) ==
    IF q = <<>> THEN {<<>>}
    ELSE LET rest == SubSeqs(Tail(q))
         IN rest \cup { <<q[1]>> \o x : x \in rest }

\* what get_list_of_primary_key_columns_for_table can return for a table
\* with the first n columns, and the default None of the parameter
PrimaryKeys(n) ==
    { PyList(x) : x \in SubSeqs(SubSeq(Columns, 1, n)) } \cup {PyNoneObject}

WhereInputs ==
    { [pc |-> "call", record |-> r, primary_key |-> k] :
        r \in {PyNoneObject}, k \in PrimaryKeys(1) }
    \cup UNION { { [pc |-> "call", record |-> r, primary_key |-> k] :
                     r \in RowsOfWidth(n), k \in PrimaryKeys(n) } :
                 n \in 0..MaxColumns }

GenerateWhereClause ==
    /\ local.pc = "call"
    /\ LET result == generate_where_clause_from_record(local.record,
                                                       local.primary_key)
       IN local' = [pc |-> "returned", record |-> local.record,
                    primary_key |-> local.primary_key,
                    status |-> result.status, where_clause |-> result.text]
    /\ UNCHANGED <<sched_vars, ssn>>

InitWhere ==
    /\ InitIdle
    /\ ssn = SsnIdle
    /\ local \in WhereInputs

NextWhere == GenerateWhereClause

\* ------------------------------------------------------------------------
\* Date variance (data_rules.py, DateVarianceRule)
\* ------------------------------------------------------------------------
DateRules ==
    { [class |-> "DateVarianceRule", group |-> 1, database |-> "db",
       schema |-> "dbo", table |-> "people", column |-> "born", range |-> r,
       where_clause |-> w, method |-> m] :
        r \in (0 - MaxRange)..MaxRange, w \in WhereClauses,
        m \in {"simple", "complete", "monthly"} }

DateLocals(rule, table, primary_key) ==
    [pc |-> "created", rule |-> rule, table |-> table,
     primary_key |-> primary_key, records |-> <<>>, row |-> 0,
     calls |-> <<>>, applied |-> <<>>, failed |-> <<>>]

DateValidate ==
    /\ local.pc = "created"
    /\ local' = [local EXCEPT !.pc =
                    IF DateVarianceRule_validate_instructions(local.rule) = "ok"
                    THEN "validated" ELSE "invalid"]
    /\ UNCHANGED <<sched_vars, ssn>>

\* lines 271-277: the method execute() calls, or the error of the else branch
DateVarianceRule_execute(r) ==
    IF r.method = "simple" THEN "_execute_simple_method"
    ELSE IF r.method = "complete" THEN "_execute_complete_method"
    ELSE "NotImplementedError"

DateRangeMin_Zero(range) == 0

\* line 288
DateRangeMin(range) == IF range > 0 THEN 1 ELSE -1

\* the value of (range_min + floor(rand() * (range_max + 1 - range_min)))
\* when rand() returns u / RandResolution
DateAddDays(range_min, range_max, u) ==
    range_min + ((u * (range_max + 1 - range_min)) \div RandResolution)

\* the text of lines 290-298: the where-clause the simple method passes
SimpleWhereClause(rule) ==
    append_where_column_is_not_null(
        rule.column,
        IF rule.where_clause /= "" THEN StrText(rule.where_clause)
        ELSE DEFAULT_WHERE_CLAUSE)

\* lines 279-303 and the statement of database_gateway.py lines 224-240: one
\* update, the server draws rand() once for the statement
DateExecuteSimple ==
    /\ local.pc = "validated"
    /\ DateVarianceRule_execute(local.rule) = "_execute_simple_method"
    /\ \E failure \in DriverFailures, u \in 0..(RandResolution - 1) :
          LET rule == local.rule
              where_clause == SimpleWhereClause(rule)
              call == GatewayCall("update_date_column_with_random_variance",
                                  <<rule.database, rule.schema, rule.table,
                                    rule.column, where_clause,
                                    DateRangeMin(rule.range), rule.range>>)
              days == DateAddDays(DateRangeMin(rule.range), rule.range, u)
              rows == SelectRows(local.table, rule.where_clause, where_clause,
                                 rule.column)
          IN local' =
               [local EXCEPT
                  !.calls = Append(@, call),
                  !.pc = IF SqlServerDatabaseContext_execute(failure) = "raised"
                         THEN "raised" ELSE "done",
                  !.applied = IF failure = "none"
                              THEN [k \in 1..Len(rows) |->
                                      [id |-> Lookup(rows[k], "id").int,
                                       days |-> days]]
                              ELSE @,
                  !.failed = IF failure = "statement" THEN <<0>> ELSE @]
    /\ UNCHANGED <<sched_vars, ssn>>

\* lines 314-318: the where-clause of the select of the complete method
CompleteWhereClause(rule) ==
    append_where_column_is_not_null(
        rule.column,
        IF rule.where_clause /= "" THEN StrText(rule.where_clause)
        ELSE DEFAULT_WHERE_CLAUSE)

\* lines 320-331: the two reads that precede the loop
DateReadRecords ==
    /\ local.pc = "validated"
    /\ DateVarianceRule_execute(local.rule) = "_execute_complete_method"
    /\ \E failure \in DriverFailures :
          LET rule == local.rule
              where_clause == CompleteWhereClause(rule)
              reads == <<GatewayCall("get_records_from_table",
                                     <<rule.database, rule.schema, rule.table,
                                       where_clause>>),
                         GatewayCall("get_list_of_primary_key_columns_for_table",
                                     <<rule.database, rule.schema, rule.table>>)>>
          IN IF SqlServerDatabaseContext_query(failure) = "raised"
             THEN local' = [local EXCEPT !.pc = "raised",
                                         !.calls = @ \o SubSeq(reads, 1, 1)]
             ELSE local' = [local EXCEPT
                              !.pc = "for",
                              !.calls = @ \o reads,
                              !.records = SelectRows(local.table, rule.where_clause,
                                                     where_clause, rule.column)]
    /\ UNCHANGED <<sched_vars, ssn>>

\* line 338: the values randint can return
RandomNumbers(range) ==
    IF range > 0 THEN 1..range ELSE range..(0 - 1)

\* lines 333-353: one record of the loop; a record whose column is None is
\* passed over, another is shifted by its own random number
DateNextRecord ==
    /\ local.pc = "for"
    /\ local.row < Len(local.records)
    /\ IF Lookup(local.records[local.row + 1], local.rule.column).kind = "None"
       THEN local' = [local EXCEPT !.row = @ + 1]
       ELSE \E failure \in DriverFailures,
               random_number \in RandomNumbers(local.rule.range) :
          LET rule == local.rule
              record == local.records[local.row + 1]
              replacement_date ==
                  PyDate(Lookup(record, rule.column).int + random_number)
              call == GatewayCall("update_rows",
                         <<rule.database, rule.schema, rule.table,
                           generate_update_set_clause_for_column(rule.column,
                                                                 replacement_date),
                           generate_where_clause_from_record(
                               record, local.primary_key).text>>)
          IN local' =
               [local EXCEPT
                  !.calls = Append(@, call),
                  !.row = @ + 1,
                  !.pc = IF SqlServerDatabaseContext_execute(failure) = "raised"
                         THEN "raised" ELSE "for",
                  !.applied = IF failure = "none"
                              THEN Append(@, [id |-> Lookup(record, "id").int,
                                              days |-> random_number])
                              ELSE @,
                  !.failed = IF failure = "statement"
                             THEN Append(@, Lookup(record, "id").int) ELSE @]
    /\ UNCHANGED <<sched_vars, ssn>>

\* line 333: no record is left
DateReturn ==
    /\ local.pc = "for"
    /\ local.row >= Len(local.records)
    /\ local' = [local EXCEPT !.pc = "done"]
    /\ UNCHANGED <<sched_vars, ssn>>

DateValues == {PyNone, PyDate(100)}

InitDate ==
    /\ InitIdle
    /\ ssn = SsnIdle
    /\ \E n \in 0..MaxRows :
          local \in { DateLocals(rule, table, primary_key) :
                        rule \in DateRules,
                        table \in TablesOver(DateValues, "born", n),
                        primary_key \in {PyList(<<"id">>), PyList(<<>>)} }

NextDate ==
    \/ DateValidate
    \/ DateExecuteSimple
    \/ DateReadRecords
    \/ DateNextRecord
    \/ DateReturn

\* ------------------------------------------------------------------------
\* Fake value substitution: FakeStringSubstitutionRule of data_rules.py and
\* DynamicValueSubstitutionRule of the other copy of data_rules.py
\* ------------------------------------------------------------------------
\* contents of the JSON data set: a list of objects
DataSets ==
    { <<>>,
      <<PyDict(<<Item("first", PyStr("Ann"))>>)>>,
      <<PyDict(<<Item("first", PyStr("Ann"))>>),
        PyDict(<<Item("first", PyInt(7))>>)>>,
      <<PyDict(<<Item("first", PyStr("Ann"))>>),
        PyDict(<<Item("last", PyStr("Lee"))>>)>> }

HasKey(record, column) ==
    \E j \in 1..Len(record.items) : record.items[j].column = column

FakeRules ==
    { [class |-> "FakeStringSubstitutionRule", group |-> 1, database |-> "db",
       schema |-> "dbo", table |-> "people", column |-> "name",
       where_clause |-> w, data_set_path |-> "names.json",
       data_set_key |-> "first"] : w \in WhereClauses }

\* the mapping is {column of the table: key of the data set}
DynamicRules ==
    { [class |-> "DynamicValueSubstitutionRule", group |-> 1, database |-> "db",
       schema |-> "dbo", table |-> "people",
       data_mapping |-> <<PyDict(<<Item("name", PyStr("first"))>>)>>,
       where_clause |-> w, dataset_path |-> "names.json"] :
        w \in WhereClauses }

FakeLocals(rule, data_set, table, primary_key) ==
    [pc |-> "begin", rule |-> rule, data_set |-> data_set, table |-> table,
     primary_key |-> primary_key, data_set_values_only |-> <<>>,
     records |-> <<>>, row |-> 0, calls |-> <<>>, updates |-> <<>>,
     failed |-> <<>>]

\* lines 50-53: item[self.data_set_key] of every item, KeyError if one lacks it
FakeLoadDataSet ==
    /\ local.pc = "begin"
    /\ local.rule.class = "FakeStringSubstitutionRule"
    /\ IF \E j \in 1..Len(local.data_set) :
             ~HasKey(local.data_set[j], local.rule.data_set_key)
       THEN local' = [local EXCEPT !.pc = "raised"]
       ELSE local' = [local EXCEPT
                        !.pc = "loaded",
                        !.data_set_values_only =
                            [j \in 1..Len(local.data_set) |->
                                Lookup(local.data_set[j], local.rule.data_set_key)]]
    /\ UNCHANGED <<sched_vars, ssn>>

\* lines 55-66: the two reads; the rule's where-clause is passed as it is
FakeReadRecords ==
    /\ local.pc = "loaded"
    /\ \E failure \in DriverFailures :
          LET rule == local.rule
              reads == <<GatewayCall("get_records_from_table",
                                     <<rule.database, rule.schema, rule.table,
                                       StrText(rule.where_clause)>>),
                         GatewayCall("get_list_of_primary_key_columns_for_table",
                                     <<rule.database, rule.schema, rule.table>>)>>
          IN IF SqlServerDatabaseContext_query(failure) = "raised"
             THEN local' = [local EXCEPT !.pc = "raised",
                                         !.calls = @ \o SubSeq(reads, 1, 1)]
             ELSE local' = [local EXCEPT
                              !.pc = "for",
                              !.calls = @ \o reads,
                              !.records = SelectRows(local.table, rule.where_clause,
                                                     StrText(rule.where_clause),
                                                     rule.column)]
    /\ UNCHANGED <<sched_vars, ssn>>

\* the rows the server finds for the where-clause of an update: those from
\* which the same conditions, column by column, would have been built
MatchingRows(table, where_clause, primary_key) ==
    { k \in 1..Len(table) :
        generate_where_clause_from_record(table[k], primary_key).text = where_clause }

\* update ... set [column] = value on the rows given
WriteColumn(table, rows, column, value) ==
    [k \in 1..Len(table) |->
        IF k \in rows
        THEN PyDict([j \in 1..Len(table[k].items) |->
                        IF table[k].items[j].column = column
                        THEN Item(column, value) ELSE table[k].items[j]])
        ELSE table[k]]

\* the state after update_rows was called for a record with a value
AfterUpdate(record, column, value, failure) ==
    LET rule == local.rule
        set_clause == generate_update_set_clause_for_column(column, value)
        where_clause == generate_where_clause_from_record(
                            record, local.primary_key).text
        raised == SqlServerDatabaseContext_execute(failure) = "raised"
        matched == MatchingRows(local.table, where_clause, local.primary_key)
    IN [local EXCEPT
          !.calls = Append(@, GatewayCall("update_rows",
                                 <<rule.database, rule.schema, rule.table,
                                   set_clause, where_clause>>)),
          !.updates = Append(@, [id |-> Lookup(record, "id").int,
                                 value |-> value,
                                 where_clause |-> where_clause,
                                 matched |-> matched,
                                 stale |-> \A k \in 1..Len(local.table) :
                                              local.table[k] /= record]),
          !.table = IF failure = "none"
                    THEN WriteColumn(@, matched, column, value) ELSE @,
          !.row = IF raised THEN @ ELSE @ + 1,
          !.pc = IF raised THEN "raised" ELSE "for",
          !.failed = IF failure = "statement"
                     THEN Append(@, Lookup(record, "id").int) ELSE @]

\* the value another rule of the group writes
SiblingValue == PyStr("Bob")

\* masker.py lines 51-55: another rule of the group runs on its own thread
\* and writes a non-key column of a row of the same table while this rule
\* is between its read and its last update
ConcurrentWrite ==
    /\ local.pc = "for"
    /\ \E k \in 1..Len(local.table) :
          /\ Lookup(local.table[k], "name") /= SiblingValue
          /\ local' = [local EXCEPT
                          !.table = WriteColumn(@, {k}, "name", SiblingValue)]
    /\ UNCHANGED <<sched_vars, ssn>>

\* lines 68-91: one record of the loop; a record whose column is None is
\* passed over, choice() raises IndexError on an empty list
FakeNextRecord ==
    /\ local.pc = "for"
    /\ local.rule.class = "FakeStringSubstitutionRule"
    /\ local.row < Len(local.records)
    /\ LET record == local.records[local.row + 1]
       IN IF Lookup(record, local.rule.column).kind = "None"
          THEN local' = [local EXCEPT !.row = @ + 1]
          ELSE IF local.data_set_values_only = <<>>
          THEN local' = [local EXCEPT !.pc = "raised"]
          ELSE \E k \in 1..Len(local.data_set_values_only),
                  failure \in DriverFailures :
                  local' = AfterUpdate(record, local.rule.column,
                                       local.data_set_values_only[k], failure)
    /\ UNCHANGED <<sched_vars, ssn>>

\* the other copy of data_rules.py, lines 96-105 and 30-46: the data set is
\* kept whole, an empty where-clause is replaced by the default one
DynamicReadRecords ==
    /\ local.pc = "begin"
    /\ local.rule.class = "DynamicValueSubstitutionRule"
    /\ \E failure \in DriverFailures :
          LET rule == local.rule
              where_clause == IF rule.where_clause = "" THEN DEFAULT_WHERE_CLAUSE
                              ELSE StrText(rule.where_clause)
              mapping == rule.data_mapping[1]
              reads == <<GatewayCall("get_records_from_table",
                                     <<rule.database, rule.schema, rule.table,
                                       where_clause>>),
                         GatewayCall("get_primary_key_for_table",
                                     <<rule.database, rule.schema, rule.table>>)>>
          IN IF SqlServerDatabaseContext_query(failure) = "raised"
             THEN local' = [local EXCEPT !.pc = "raised",
                                         !.calls = @ \o SubSeq(reads, 1, 1)]
             ELSE local' = [local EXCEPT
                              !.pc = "for",
                              !.calls = @ \o reads,
                              !.records = SelectRows(local.table, rule.where_clause,
                                                     where_clause,
                                                     mapping.items[1].column)]
    /\ UNCHANGED <<sched_vars, ssn>>

\* the other copy of data_rules.py, lines 110-118 and 48-76: every record
\* read is updated with the values of a random item of the data set; the
\* set-clause is rendered as the SQL Server gateway renders one column
DynamicNextRecord ==
    /\ local.pc = "for"
    /\ local.rule.class = "DynamicValueSubstitutionRule"
    /\ local.row < Len(local.records)
    /\ LET record == local.records[local.row + 1]
           mapping == local.rule.data_mapping[1].items[1]
       IN IF local.data_set = <<>>
          THEN local' = [local EXCEPT !.pc = "raised"]
          ELSE \E k \in 1..Len(local.data_set), failure \in DriverFailures :
                  LET replacement_values == local.data_set[k]
                  IN IF ~HasKey(replacement_values, mapping.value.str)
                     THEN local' = [local EXCEPT !.pc = "raised"]
                     ELSE local' = AfterUpdate(record, mapping.column,
                                               Lookup(replacement_values,
                                                      mapping.value.str),
                                               failure)
    /\ UNCHANGED <<sched_vars, ssn>>

\* the for loop has no record left
FakeReturn ==
    /\ local.pc = "for"
    /\ local.row >= Len(local.records)
    /\ local' = [local EXCEPT !.pc = "done"]
    /\ UNCHANGED <<sched_vars, ssn>>

NameValues == {PyNone, PyStr("Zed")}

InitFake ==
    /\ InitIdle
    /\ ssn = SsnIdle
    /\ \E n \in 0..MaxRows :
          local \in { FakeLocals(rule, data_set, table, primary_key) :
                        rule \in FakeRules \cup DynamicRules,
                        data_set \in DataSets,
                        table \in TablesOver(NameValues, "name", n),
                        primary_key \in {PyList(<<"id">>), PyList(<<>>)} }

NextFake ==
    \/ FakeLoadDataSet
    \/ FakeReadRecords
    \/ FakeNextRecord
    \/ DynamicReadRecords
    \/ DynamicNextRecord
    \/ FakeReturn
    \/ ConcurrentWrite

\* a run of at most one instruction, over every shape of instruction
InitRule ==
    /\ instruction_set \in SeqsUpTo(AllInstructions, 1)
    /\ pc = "create"
    /\ InitCommon

Spec == Init /\ [][Next]_vars

\* the steps of the main thread
MainThreadStep ==
    \/ CreateRule
    \/ NoRules
    \/ SortGroups
    \/ PopGroup
    \/ Finish
    \/ StartThread
    \/ AllStarted
    \/ JoinThread
    \/ AllJoined

\* execute() of a started thread ends, by returning or by raising
RuleThreadStep == \E t \in Rules : ExecuteReturns(t) \/ ExecuteRaises(t)

\* the scheduler where the main thread keeps running and an execute() that
\* has been started comes to its end
SpecFair ==
    /\ Init
    /\ [][Next]_vars
    /\ WF_vars(MainThreadStep)
    /\ WF_vars(RuleThreadStep)

SpecMain == InitMain /\ [][NextMain]_vars

SpecRule == InitRule /\ [][Next]_vars

SpecSsn == InitSsn /\ [][NextSsn]_vars

SpecGen == InitGen /\ [][NextGen]_vars

SpecPair == InitPair /\ [][NextPair]_vars

SpecValidate == InitValidate /\ [][NextValidate]_vars

SpecWhere == InitWhere /\ [][NextWhere]_vars

SpecDate == InitDate /\ [][NextDate]_vars

SpecFake == InitFake /\ [][NextFake]_vars

\* ------------------------------------------------------------------------
\* Properties
\* ------------------------------------------------------------------------
Built == 1..Len(rule_controller)

GroupOf(t) == rule_controller[t].group

Positions(event) == {k \in 1..Len(trace) : trace[k] = event}

Started(t) == Positions(<<"start", t>>) /= {}

StartIndex(t) == CHOOSE k \in Positions(<<"start", t>>) : TRUE

Ended(t) == thread[t] \in {"returned", "raised"}

CallsBy(t) == {k \in 1..Len(gateway_calls) : gateway_calls[k].rule = t}

\* C1: whenever a rule of a larger group has started execute(), every rule
\* of every smaller group has started before it, for any input order and
\* any group numbers
GroupsInAscendingOrder ==
    \A x \in Built, y \in Built :
        (GroupOf(x) < GroupOf(y) /\ Started(y)) =>
            (Started(x) /\ StartIndex(x) < StartIndex(y))

GroupsInAscendingOrderWitness ==
    /\ pc = "done"
    /\ Len(rule_controller) = 3
    /\ GroupOf(1) = 5 /\ GroupOf(2) = 1 /\ GroupOf(3) = 2
    /\ \A t \in Built : Started(t)

\* C2: a rule of a later group has left the state "new" only when every
\* rule of every earlier group has returned or raised, and rules of two
\* different groups are never running at the same time
GroupBarrier ==
    \A x \in Built, y \in Built :
        /\ (GroupOf(x) < GroupOf(y) /\ thread[y] /= "new") => Ended(x)
        /\ GroupOf(x) /= GroupOf(y) =>
              ~(thread[x] = "running" /\ thread[y] = "running")

GroupBarrierWitness ==
    \E x \in Built, y \in Built :
        /\ GroupOf(x) < GroupOf(y)
        /\ thread[x] = "raised"
        /\ thread[y] = "running"

\* C3: when create_rule fails for some instruction of the set, no execute()
\* is ever started and no gateway call is ever made
FailFastAdmission ==
    (\E k \in 1..Len(instruction_set) :
        create_rule(instruction_set[k]).status /= "ok")
    => /\ trace = <<>>
       /\ gateway_calls = <<>>
       /\ \A t \in DOMAIN thread : thread[t] = "new"
       /\ pc \in {"create", "aborted"}

FailFastAdmissionWitness ==
    /\ pc = "aborted"
    /\ i = 3
    /\ Len(rule_controller) = 2
    /\ gateway_calls = <<>>

\* C4: when a rule of a group has raised, each sibling of the group has its
\* thread started once the start loop is over, and has run execute() to its
\* end (its gateway call made) by the time the scheduler leaves the group
SiblingsNotCancelled ==
    \A x \in Built, y \in Built :
        (thread[x] = "raised" /\ GroupOf(x) = GroupOf(y)) =>
            /\ pc = "join" => thread[y] /= "new"
            /\ (pc \in {"pop", "done"} \/ group /= GroupOf(x)) =>
                  (Ended(y) /\ CallsBy(y) /= {})

SiblingsNotCancelledWitness ==
    /\ pc = "done"
    /\ \E x \in Built, y \in Built :
          /\ x /= y
          /\ GroupOf(x) = GroupOf(y)
          /\ thread[x] = "raised"
          /\ thread[y] = "returned"
          /\ \E a \in Positions(<<"raise", x>>) : a < StartIndex(y)

\* C5: every rule built is validated exactly once and executed at most
\* once, exactly once when the run is over, and validated before it is
\* executed
ValidatedOnceExecutedOnce ==
    \A t \in Built :
        /\ validated[t] = 1
        /\ Cardinality(Positions(<<"start", t>>)) <= 1
        /\ pc = "done" => Cardinality(Positions(<<"start", t>>)) = 1

\* C6: validation fails for every rule whose group is less than 1, so no
\* rule that passed validation has a group below 1
GroupBelowOneRejected ==
    \A t \in Built : rule_controller[t].group >= 1

\* the number a string of decimal digits stands for
RECURSIVE ParseDigits(_)
ParseDigits(chars) ==
    IF chars = <<>> THEN 0
    ELSE 10 * ParseDigits(SubSeq(chars, 1, Len(chars) - 1))
         + (CHOOSE d \in 0..9 : DigitChars[d + 1] = chars[Len(chars)])

AreaOf(value, sep) == ParseDigits(SubSeq(value, 1, 3))

GroupNumberOf(value, sep) ==
    ParseDigits(SubSeq(value, 4 + Len(sep), 5 + Len(sep)))

SerialOf(value, sep) ==
    ParseDigits(SubSeq(value, 6 + 2 * Len(sep), 9 + 2 * Len(sep)))

ItinRanges == (70..79) \cup (80..88) \cup (90..92) \cup (94..99)

\* C7: every generated value has area >= 900, area in {000, 666}, group 00
\* or serial 0000, and with area >= 900 its group is no ITIN group
GeneratedSsnIsInvalid ==
    ssn.pc = "generated" =>
        LET area == AreaOf(ssn.invalid_ssn, ssn.seperator)
            grp == GroupNumberOf(ssn.invalid_ssn, ssn.seperator)
            serial == SerialOf(ssn.invalid_ssn, ssn.seperator)
        IN /\ Len(ssn.invalid_ssn) = 9 + 2 * Len(ssn.seperator)
           /\ area >= 900 \/ area \in {0, 666} \/ grp = 0 \/ serial = 0
           /\ area >= 900 => grp \notin ItinRanges

GeneratedSsnIsInvalidWitness ==
    /\ ssn.pc = "generated"
    /\ AreaOf(ssn.invalid_ssn, ssn.seperator) = 999
    /\ GroupNumberOf(ssn.invalid_ssn, ssn.seperator) = 93
    /\ SerialOf(ssn.invalid_ssn, ssn.seperator) = 9999

UpdatedValues == {ssn.updates[k].value : k \in 1..Len(ssn.updates)}

\* C8: the values written in one execution are pairwise distinct, the value
\* about to be written is none of those written before, and after the
\* exhaustion error the current row has no update
WrittenSsnsAreDistinct ==
    /\ \A a \in 1..Len(ssn.updates), b \in 1..Len(ssn.updates) :
          a /= b => ssn.updates[a].value /= ssn.updates[b].value
    /\ (ssn.pc = "while" /\ ssn.is_unique) => ssn.invalid_ssn \notin UpdatedValues
    /\ ssn.pc = "exhausted" =>
          \A k \in 1..Len(ssn.updates) : ssn.updates[k].row /= ssn.row

WrittenSsnsAreDistinctWitness ==
    /\ ssn.pc = "done"
    /\ Len(ssn.updates) >= 2
    /\ ssn.retry_attempts > 0

RetryBoundState ==
    /\ ssn.attempts <= 10
    /\ ssn.pc = "while" =>
          ssn.attempts = ssn.retry_attempts + (IF ssn.is_unique THEN 1 ELSE 0)
    /\ ssn.pc = "exhausted" =>
          (ssn.attempts = 10 /\ ssn.retry_attempts = 10 /\ ~ssn.is_unique)

RetryBoundStep ==
    (ssn.pc = "while" /\ ~ssn.is_unique /\ ssn.retry_attempts = 10)
    => ssn'.pc = "exhausted"

\* C9: a row gets at most 10 calls of the generator; the exhaustion error is
\* raised only after 10 calls that all collided, and after 10 collisions
\* nothing but the error follows
RetryBound == []RetryBoundState /\ [][RetryBoundStep]_vars

RetryBoundWitness ==
    /\ ssn.pc = "exhausted"
    /\ ssn.attempts = 10
    /\ ssn.row = 2

ToggleOperations ==
    [disable_trigger |->
        <<"disable_all_triggers_for_database", "disable_all_triggers_for_table",
          "disable_single_trigger_for_table">>,
     enable_trigger |->
        <<"enable_all_triggers_for_database", "enable_all_triggers_for_table",
          "enable_single_trigger_for_table">>,
     disable_check_constraint |->
        <<"disable_all_check_constraints_for_database",
          "disable_all_check_constraints_for_table",
          "disable_single_check_constraint_for_table">>,
     enable_check_constraint |->
        <<"enable_all_check_constraints_for_database",
          "enable_all_check_constraints_for_table",
          "enable_single_check_constraint_for_table">>,
     disable_foreign_key |->
        <<"disable_all_foreign_keys_for_database",
          "disable_all_foreign_keys_for_table",
          "disable_single_foreign_key_for_table">>,
     enable_foreign_key |->
        <<"enable_all_foreign_keys_for_database",
          "enable_all_foreign_keys_for_table",
          "enable_single_foreign_key_for_table">>]

ObjectNameField(name) ==
    CASE name \in {"disable_trigger", "enable_trigger"} -> "trigger"
      [] name \in {"disable_check_constraint", "enable_check_constraint"} ->
            "check_constraint"
      [] name \in {"disable_foreign_key", "enable_foreign_key"} -> "foreign_key"

\* 1: whole database, 2: whole table, 3: single object
ExpectedTier(ins) ==
    IF ins.schema = "*" THEN 1
    ELSE IF ins[ObjectNameField(ins.rule)] = "*" THEN 2
    ELSE 3

\* C10: an executed toggling rule has made exactly one gateway call, the
\* operation of its own kind and direction at the tier the precedence
\* schema wildcard, object-name wildcard, single object selects
TogglePrecedence ==
    \A t \in Built :
        (Ended(t) /\ instruction_set[t].rule \in DOMAIN ToggleOperations) =>
            /\ Cardinality(CallsBy(t)) = 1
            /\ \A k \in CallsBy(t) :
                  gateway_calls[k].call.op =
                     ToggleOperations[instruction_set[t].rule][ExpectedTier(instruction_set[t])]

TogglePrecedenceWitness ==
    /\ pc = "done"
    /\ Len(rule_controller) = 1
    /\ instruction_set[1].rule = "enable_foreign_key"
    /\ instruction_set[1].schema = "*"
    /\ instruction_set[1].foreign_key = "*"
    /\ thread[1] = "returned"
    /\ Len(gateway_calls) = 1
    /\ gateway_calls[1].call.op = "enable_all_foreign_keys_for_database"

\* ------------------------------------------------------------------------
\* Properties of the factory and of validation
\* ------------------------------------------------------------------------
ObjectRuleNames ==
    {"disable_trigger", "enable_trigger", "disable_check_constraint",
     "enable_check_constraint", "disable_foreign_key", "enable_foreign_key"}

\* the instruction has a known discriminator and every key its branch reads
WellFormed(ins) ==
    /\ "rule" \in DOMAIN ins
    /\ ins.rule \in RuleNames
    /\ RequiredFields(ins.rule) \subseteq DOMAIN ins

\* C11: an object-toggling rule whose database is "*" or whose table is "*"
\* is rejected, whatever its schema and object name are; with neither of the
\* two a wildcard the rule passes, also when the schema or the object name
\* is "*".
ObjectRuleWildcards ==
    \A k \in DOMAIN instruction_set :
        LET ins == instruction_set[k]
        IN (WellFormed(ins) /\ ins.rule \in ObjectRuleNames) =>
              IF ins.database = "*" \/ ins.table = "*"
              THEN Len(rule_controller) < k
              ELSE ~(pc = "aborted" /\ i = k)

ObjectRuleWildcardsWitness ==
    /\ pc = "aborted"
    /\ i = 1
    /\ WellFormed(instruction_set[1])
    /\ instruction_set[1].rule = "disable_check_constraint"
    /\ instruction_set[1].database = "db"
    /\ instruction_set[1].schema = "*"
    /\ instruction_set[1].table = "*"

\* C12: an instruction that lacks a key its variant requires makes
\* create_rule raise KeyError, one whose discriminator is unknown makes it
\* raise ValueError; in both cases no rule is returned.
CreateRuleErrors ==
    \A k \in DOMAIN instruction_set :
        LET ins == instruction_set[k]
            created == create_rule(ins)
        IN /\ ("rule" \in DOMAIN ins /\ ins.rule \notin RuleNames)
                => created.status = "ValueError"
           /\ (\/ "rule" \notin DOMAIN ins
               \/ /\ ins.rule \in RuleNames
                  /\ \E f \in RequiredFields(ins.rule) : f \notin DOMAIN ins)
                => created.status = "KeyError"
           /\ ~WellFormed(ins)
                => /\ "rule" \notin DOMAIN created
                   /\ Len(rule_controller) < k

CreateRuleErrorsWitness ==
    /\ pc = "aborted"
    /\ i = 1
    /\ "rule" \in DOMAIN instruction_set[1]
    /\ instruction_set[1].rule = "truncate_table"
    /\ "table" \notin DOMAIN instruction_set[1]

\* C13 as stated: create_rule does not validate, so a well-formed instruction
\* always yields a rule, invalid values included.
FactoryReturnsUnvalidatedRule ==
    (pc = "aborted" /\ i \in DOMAIN instruction_set)
        => ~WellFormed(instruction_set[i])

\* C13: create_rule calls validate_instructions() on the rule it built, so
\* every rule it returns has passed validation, and a well-formed instruction
\* with invalid values makes it raise the validation error and return no rule.
FactoryValidates ==
    /\ \A t \in Built : validate_instructions(rule_controller[t]) = "ok"
    /\ (pc = "aborted" /\ i \in DOMAIN instruction_set
                       /\ WellFormed(instruction_set[i]))
          => /\ validate_instructions(ConstructRule(instruction_set[i])) /= "ok"
             /\ Len(rule_controller) < i

FactoryValidatesWitness ==
    /\ pc = "aborted"
    /\ i = 1
    /\ WellFormed(instruction_set[1])
    /\ instruction_set[1].rule = "truncate_table"
    /\ instruction_set[1].table = ""
    /\ rule_controller = <<>>

\* C19: when the instruction set yields no rule, the scheduler leaves through
\* sys.exit() straight after the rule-building loop: no error, no thread
\* started, no gateway call.
NoRulesNoOp ==
    /\ (rule_controller = <<>> /\ i > Len(instruction_set))
          => pc \in {"create", "exit"}
    /\ pc = "exit"
          => /\ rule_controller = <<>>
             /\ started_threads = <<>>
             /\ \A t \in DOMAIN thread : thread[t] = "new"
             /\ trace = <<>>
             /\ gateway_calls = <<>>

NoRulesNoOpWitness ==
    /\ pc = "exit"
    /\ instruction_set = <<>>
    /\ gateway_calls = <<>>

\* ------------------------------------------------------------------------
\* Properties of the substitution rules and of the clause builders
\* ------------------------------------------------------------------------
ReadOperations == {"get_records_from_table", "get_list_of_primary_key_columns_for_table"}

\* the set-clause the claim describes for a static value
ExpectedStaticSetClause(column, value) ==
    IF value.kind = "str" /\ value.str = "NULL"
    THEN <<" set [", column, "] = NULL">>
    ELSE IF value.kind = "int"
    THEN <<" set [", column, "] = ">> \o IntText(value.int) \o <<" ">>
    ELSE <<" set [", column, "] = '", value.str, "'">>

\* C15: an executed static substitution has made exactly one gateway call,
\* an update_rows and no read; its set-clause assigns NULL unquoted when
\* static_value is the string "NULL", a bare integer for an integer and a
\* quoted literal otherwise; its where-clause is the rule's own, unchanged.
StaticSubstitution ==
    \A t \in Built :
        (Ended(t) /\ instruction_set[t].rule = "static_string_substitution") =>
            /\ Cardinality(CallsBy(t)) = 1
            /\ \A k \in CallsBy(t) :
                  LET ins == instruction_set[t]
                      call == gateway_calls[k].call
                  IN /\ call.op = "update_rows"
                     /\ call.op \notin ReadOperations
                     /\ call.args[1] = ins.database
                     /\ call.args[2] = ins.schema
                     /\ call.args[3] = ins.table
                     /\ call.args[4] =
                           ExpectedStaticSetClause(ins.column, ins.static_value)
                     /\ call.args[5] = StrText(ins.where_clause)

StaticSubstitutionWitness ==
    /\ Len(rule_controller) = 1
    /\ thread[1] = "returned"
    /\ instruction_set[1].rule = "static_string_substitution"
    /\ instruction_set[1].static_value = PyStr("NULL")
    /\ instruction_set[1].where_clause = "where id > 3"
    /\ Len(gateway_calls) = 1
    /\ gateway_calls[1].call.args[4] = <<" set [", "name", "] = NULL">>

\* positions of the text where a condition starts
ConditionStarts(text) == {p \in 1..Len(text) : text[p] = " and ["}

\* the condition the claim describes for a column of a given value
ExpectedCondition(column, value) ==
    IF value.kind = "None" THEN <<" and [", column, "] is NULL ">>
    ELSE IF value.kind = "int"
    THEN <<" and [", column, "] = ">> \o IntText(value.int) \o <<" ">>
    ELSE <<" and [", column, "] = '">> \o Format(value) \o <<"' ">>

\* the columns the claim says the clause has conditions on
ConditionColumns(record, primary_key) ==
    IF primary_key.kind /= "None" /\ primary_key.items /= <<>>
    THEN {primary_key.items[k] : k \in 1..Len(primary_key.items)}
    ELSE {record.items[k].column : k \in 1..Len(record.items)}

\* the text is the base predicate followed by conditions and nothing else,
\* one condition on each column of cols and none on another column, each of
\* the shape of its column's value
IsWhereClauseOn(text, record, cols) ==
    /\ Len(text) >= Len(DEFAULT_WHERE_CLAUSE)
    /\ SubSeq(text, 1, Len(DEFAULT_WHERE_CLAUSE)) = DEFAULT_WHERE_CLAUSE
    /\ IF cols = {} THEN Len(text) = Len(DEFAULT_WHERE_CLAUSE)
       ELSE Len(DEFAULT_WHERE_CLAUSE) + 1 \in ConditionStarts(text)
    /\ \A k \in 1..Len(record.items) :
          Cardinality({p \in ConditionStarts(text) :
                          text[p + 1] = record.items[k].column})
             = IF record.items[k].column \in cols THEN 1 ELSE 0
    /\ \A p \in ConditionStarts(text) :
          /\ text[p + 1] \in cols
          /\ LET expected == ExpectedCondition(text[p + 1],
                                               Lookup(record, text[p + 1]))
             IN /\ p + Len(expected) - 1 <= Len(text)
                /\ SubSeq(text, p, p + Len(expected) - 1) = expected
                /\ \/ p + Len(expected) = Len(text) + 1
                   \/ p + Len(expected) \in ConditionStarts(text)

\* C16: the where-clause built from a record has exactly one condition per
\* primary-key column and none on another column when the primary-key list is
\* non-empty, exactly one per record column when it is empty or absent; a
\* condition is "is NULL" for a null, a bare literal for an integer and a
\* quoted literal otherwise, and the conditions follow the base predicate.
WhereClauseFromRecord ==
    (local.pc = "returned" /\ "where_clause" \in DOMAIN local
                           /\ local.record.kind = "dict") =>
        /\ local.status = "ok"
        /\ IsWhereClauseOn(local.where_clause, local.record,
                           ConditionColumns(local.record, local.primary_key))

WhereClauseFromRecordWitness ==
    /\ local.pc = "returned"
    /\ "where_clause" \in DOMAIN local
    /\ local.record = PyDict(<<Item("id", PyInt(5)), Item("name", PyStr("Ann")),
                               Item("note", PyNone)>>)
    /\ local.primary_key = PyList(<<"id">>)
    /\ local.where_clause =
          DEFAULT_WHERE_CLAUSE \o <<" and [", "id", "] = ", "5", " ">>

\* C14 as stated: once the driver has failed in an update_rows call of a
\* per-row rule, execute() has ended with the failure and no later row has
\* been updated.
DriverFailureEndsExecute ==
    ("failed" \in DOMAIN ssn /\ ssn.failed /= <<>>) =>
        /\ ssn.pc = "raised"
        /\ \A k \in 1..Len(ssn.updates) : ssn.updates[k].row < ssn.failed[1]

\* ------------------------------------------------------------------------
\* Properties of date variance
\* ------------------------------------------------------------------------
DateRun == "applied" \in DOMAIN local /\ local.rule.class = "DateVarianceRule"

\* the interval the claim gives for a range
InRangeInterval(days, range) ==
    IF range > 0 THEN 1 <= days /\ days <= range
    ELSE range <= days /\ days <= 0 - 1

DateCalls(op) == {k \in 1..Len(local.calls) : local.calls[k].op = op}

\* C17: every day offset a validated date-variance rule applies lies in
\* [1, range] for a positive range and in [range, -1] for a negative one,
\* with either method; so does the value of the expression of the simple
\* method, range_min + floor(u * (range_max + 1 - range_min)), for every
\* u in [0, 1) and the range_min and range_max the rule passed.
DateOffsetInRange ==
    DateRun =>
        /\ \A k \in 1..Len(local.applied) :
              /\ InRangeInterval(local.applied[k].days, local.rule.range)
              /\ local.applied[k].days /= 0
        /\ \A c \in DateCalls("update_date_column_with_random_variance") :
              \A u \in 0..(RandResolution - 1) :
                 LET range_min == local.calls[c].args[6]
                     range_max == local.calls[c].args[7]
                     scaled == u * (range_max + 1 - range_min)
                     floor == CHOOSE f \in (0 - 2 * MaxRange - 2)..(2 * MaxRange + 2) :
                                 /\ f * RandResolution <= scaled
                                 /\ scaled < (f + 1) * RandResolution
                 IN InRangeInterval(range_min + floor, local.rule.range)

DateOffsetInRangeWitness ==
    /\ DateRun
    /\ local.pc = "done"
    /\ local.rule.method = "simple"
    /\ local.rule.range = 0 - 3
    /\ Len(local.applied) = 2
    /\ local.applied[1].days = 0 - 2

\* ids of the rows of the table that the rule's where-clause matches and
\* whose column is not null
NonNullMatching(table, rule) ==
    { Lookup(table[k], "id").int : k \in
        { j \in 1..Len(table) :
            /\ Matches(rule.where_clause, table[j])
            /\ Lookup(table[j], rule.column).kind /= "None" } }

\* C18: a finished simple run has made one gateway call, the server-side
\* update restricted to the rows whose column is not null, and no read, and
\* every row it shifted got the same offset; a finished complete run has read
\* the non-null matching rows (and the primary key) and made exactly one
\* update_rows per row read, each for that row and with its own offset.
DateMethods ==
    (DateRun /\ local.pc = "done") =>
        LET rule == local.rule
            calls == local.calls
        IN IF rule.method = "simple"
           THEN /\ Len(calls) = 1
                /\ calls[1].op = "update_date_column_with_random_variance"
                /\ HasNotNullCondition(calls[1].args[5], rule.column)
                /\ DateCalls("get_records_from_table") = {}
                /\ \A j, k \in 1..Len(local.applied) :
                      local.applied[j].days = local.applied[k].days
                /\ local.failed = <<>>
                      => {local.applied[k].id : k \in 1..Len(local.applied)}
                            = NonNullMatching(local.table, rule)
           ELSE /\ Len(calls) = 2 + Len(local.records)
                /\ calls[1].op = "get_records_from_table"
                /\ HasNotNullCondition(calls[1].args[4], rule.column)
                /\ calls[2].op = "get_list_of_primary_key_columns_for_table"
                /\ {Lookup(local.records[k], "id").int : k \in 1..Len(local.records)}
                      = NonNullMatching(local.table, rule)
                /\ Cardinality(NonNullMatching(local.table, rule))
                      = Len(local.records)
                /\ \A k \in 1..Len(local.records) :
                      /\ calls[2 + k].op = "update_rows"
                      /\ IsWhereClauseOn(calls[2 + k].args[5], local.records[k],
                                         ConditionColumns(local.records[k],
                                                          local.primary_key))

\* two rows of one complete run shifted by different offsets
DateMethodsWitness ==
    /\ DateRun
    /\ local.pc = "done"
    /\ local.rule.method = "complete"
    /\ Len(local.calls) = 4
    /\ Len(local.applied) = 2
    /\ local.applied[1].days /= local.applied[2].days

\* ------------------------------------------------------------------------
\* Properties of fake value substitution
\* ------------------------------------------------------------------------
FakeRun == "data_set" \in DOMAIN local

\* the column of the table the rule replaces
TargetColumn(rule) ==
    IF rule.class = "FakeStringSubstitutionRule" THEN rule.column
    ELSE rule.data_mapping[1].items[1].column

\* the values of the data set under the rule's key
Pool(rule, data_set) ==
    LET key == IF rule.class = "FakeStringSubstitutionRule"
               THEN rule.data_set_key
               ELSE rule.data_mapping[1].items[1].value.str
    IN { Lookup(data_set[j], key) :
            j \in {m \in 1..Len(data_set) : HasKey(data_set[m], key)} }

UpdatesOf(id) == {k \in 1..Len(local.updates) : local.updates[k].id = id}

\* C20: of the records the loop is through with, one whose target column is
\* null has no update_rows call and every other has exactly one; the value an
\* update sets is in the pool, and its where-clause is the one built from the
\* updated row and the table's primary key.
FakeSubstitutionSkipsNulls ==
    FakeRun =>
        /\ \A k \in 1..local.row :
              LET record == local.records[k]
                  id == Lookup(record, "id").int
              IN IF Lookup(record, TargetColumn(local.rule)).kind = "None"
                 THEN UpdatesOf(id) = {}
                 ELSE Cardinality(UpdatesOf(id)) = 1
        /\ \A k \in 1..Len(local.updates) :
              /\ local.updates[k].value \in Pool(local.rule, local.data_set)
              /\ \E j \in 1..Len(local.records) :
                    /\ Lookup(local.records[j], "id").int = local.updates[k].id
                    /\ IsWhereClauseOn(local.updates[k].where_clause,
                                       local.records[j],
                                       ConditionColumns(local.records[j],
                                                        local.primary_key))

\* ------------------------------------------------------------------------
\* Properties of the fake-SSN rule's row selection and partial results
\* ------------------------------------------------------------------------
\* the run has made its reads
SsnRun == ssn.pc \in {"for", "while", "exhausted", "raised", "done"}

\* the table row a record of the loop came from
SsnRecordId(row) == Lookup(ssn.selected[row], "id").int

SsnColumnIsNull(id) == Lookup(ssn.table[id], "ssn").kind = "None"

\* the rows update_rows was called for, whether or not the statement failed
SsnWrittenRows ==
    {ssn.updates[k].row : k \in 1..Len(ssn.updates)}
    \cup {ssn.failed[k] : k \in 1..Len(ssn.failed)}

\* C21: with ignore_null "yes" the where-clause of the read excludes the
\* rows whose column is null, the read returns exactly the other rows and
\* update_rows is called for no null row; with "no" the read is
\* unrestricted and a run that returns has called update_rows with a
\* generated value for every row, null ones included; validation rejects
\* every other ignore_null, so such a rule never executes
IgnoreNull ==
    /\ ssn.ignore_null \notin {"yes", "no"} => ssn.pc \in {"created", "invalid"}
    /\ ssn.ignore_null \in {"yes", "no"} => ssn.pc /= "invalid"
    /\ (SsnRun /\ ssn.ignore_null = "yes") =>
          /\ HasNotNullCondition(ssn.select_where_clause, "ssn")
          /\ \A id \in 1..Len(ssn.table) :
                (\E r \in 1..Len(ssn.selected) : SsnRecordId(r) = id)
                    <=> ~SsnColumnIsNull(id)
          /\ \A row \in SsnWrittenRows : ~SsnColumnIsNull(SsnRecordId(row))
    /\ (SsnRun /\ ssn.ignore_null = "no") =>
          /\ ssn.select_where_clause = DEFAULT_WHERE_CLAUSE
          /\ ssn.selected = ssn.table
          /\ ssn.pc = "done" =>
                \A id \in 1..Len(ssn.table) :
                    \E row \in SsnWrittenRows : SsnRecordId(row) = id
          /\ \A k \in 1..Len(ssn.updates) : ssn.updates[k].value /= <<>>

IgnoreNullWitness ==
    /\ ssn.pc = "done"
    /\ ssn.ignore_null = "yes"
    /\ Len(ssn.table) = 2
    /\ SsnColumnIsNull(1)
    /\ Len(ssn.updates) = 1
    /\ SsnRecordId(ssn.updates[1].row) = 2

\* the unrestricted side of the same claim: a null row received a value
IgnoreNullNoWitness ==
    /\ ssn.pc = "done"
    /\ ssn.ignore_null = "no"
    /\ \E k \in 1..Len(ssn.updates) : SsnColumnIsNull(SsnRecordId(ssn.updates[k].row))

\* the state the exhaustion error leaves behind at row i = ssn.row
PartialResult ==
    /\ SsnWrittenRows = 1..(ssn.row - 1)
    /\ Len(ssn.updates) + Len(ssn.failed) = ssn.row - 1
    /\ ssn.row <= ssn.records
    /\ InSeq(ssn.invalid_ssn, ssn.list_of_used_invalid_ssns)
    /\ \A k \in 1..Len(ssn.updates) :
          ssn.updates[k].row = ssn.row => ssn.updates[k].value /= ssn.invalid_ssn

\* updates issued are never taken back
UpdatesKept ==
    /\ Len(ssn'.updates) >= Len(ssn.updates)
    /\ SubSeq(ssn'.updates, 1, Len(ssn.updates)) = ssn.updates

\* C29: when the exhaustion error is raised at row i, update_rows has been
\* called for exactly the rows before i, for no row from i on, the value
\* that collided is written to no row by the failing iteration, and the
\* run makes no further step; no step of the run takes back an update
ExhaustionLeavesPartialResult ==
    /\ [](ssn.pc = "exhausted" => PartialResult)
    /\ [][SsnRun => (UpdatesKept /\ (ssn.pc = "exhausted" => ssn' = ssn))]_vars

ExhaustionLeavesPartialResultWitness ==
    /\ ssn.pc = "exhausted"
    /\ ssn.row = 2
    /\ ssn.records = 2
    /\ Len(ssn.updates) = 1
    /\ ssn.updates[1].value = ssn.invalid_ssn

\* ------------------------------------------------------------------------
\* Properties of two fake-SSN rules running in one group
\* ------------------------------------------------------------------------
Other(me) == IF me = "A" THEN "B" ELSE "A"

\* the values of a list
ValuesOf(list) == {list[k] : k \in 1..Len(list)}

\* the values thread `me` has generated and accepted for its own rows
OwnAccepted(me) ==
    LET run == local.runs[me]
    IN {run.updates[k].value : k \in 1..Len(run.updates)}
       \cup (IF run.pc \in {"while", "raised", "exhausted"} /\ run.is_unique
             THEN {run.invalid_ssn} ELSE {})

UsedListIsPrivate(me) ==
    LET run == local.runs[me]
    IN /\ Len(run.list_of_used_invalid_ssns) <= run.row
       /\ run.failed = <<>> => ValuesOf(run.list_of_used_invalid_ssns) = OwnAccepted(me)
       /\ (run.pc \in {"while", "exhausted"} /\ ~run.is_unique /\ run.attempts > 0) =>
             /\ run.retry_attempts > 0
             /\ run.invalid_ssn \in ValuesOf(run.list_of_used_invalid_ssns)
             /\ run.row > 1

\* a step of one thread leaves the frame of the other as it was
OtherFrameUntouched ==
    \A me \in Threads :
        local'.runs[me] /= local.runs[me] =>
            local'.runs[Other(me)] = local.runs[Other(me)]

\* C22: each execute() works on the list it created: the list holds only
\* values the rule generated for its own rows, a retry or an exhaustion
\* error follows only a collision with one of those, a step of one rule
\* leaves the other rule's list as it was, and a value one rule has written
\* is still accepted by the other
UsedValuesArePrivate ==
    /\ [](\A me \in Threads : UsedListIsPrivate(me))
    /\ [][OtherFrameUntouched]_vars

\* both rules have written the same value, and one of them has since
\* collided with its own values only
UsedValuesArePrivateWitness ==
    /\ local.pc = "pair"
    /\ local.runs["A"].pc = "done"
    /\ local.runs["B"].pc = "exhausted"
    /\ Len(local.runs["A"].updates) = 2
    /\ Len(local.runs["B"].updates) = 1
    /\ local.runs["B"].updates[1].value \in OwnAccepted("A")

\* ------------------------------------------------------------------------
\* Properties of the data rules' validation
\* ------------------------------------------------------------------------
VariantFieldInvalid(r) ==
    \/ "column" \in DOMAIN r /\ r.column = ""
    \/ "data_set_path" \in DOMAIN r /\ r.data_set_path = "missing.json"
    \/ "data_set_key" \in DOMAIN r /\ r.data_set_key = ""
    \/ "ignore_null" \in DOMAIN r /\ r.ignore_null \notin {"yes", "no"}
    \/ "range" \in DOMAIN r /\ r.range = 0
    \/ "method" \in DOMAIN r /\ r.method \notin {"simple", "complete"}

\* C23: validate_instructions() of every data rule class raises the
\* ValueError naming the first of database, schema, table that is empty,
\* whatever the class's own fields hold; the class's own checks decide the
\* outcome only when none of the three is empty
DataRuleChecksFirst ==
    local.pc = "validated" =>
        LET r == local.rule
        IN /\ r.database = "" => local.outcome = "'database' property not set"
           /\ (r.database /= "" /\ r.schema = "") =>
                 local.outcome = "'schema' property not set"
           /\ (r.database /= "" /\ r.schema /= "" /\ r.table = "") =>
                 local.outcome = "'table' property not set"
           /\ (r.database /= "" /\ r.schema /= "" /\ r.table /= "") =>
                 /\ local.outcome \notin {"'database' property not set",
                                          "'schema' property not set",
                                          "'table' property not set"}
                 /\ (local.outcome = "ok") <=> ~VariantFieldInvalid(r)

DataRuleChecksFirstWitness ==
    /\ local.pc = "validated"
    /\ local.rule.class = "StaticStringSubstitutionRule"
    /\ local.rule.column = ""
    /\ local.rule.database /= ""
    /\ local.rule.table = ""
    /\ ExceptionOf(local.outcome) = "ValueError"
    /\ local.outcome /= "'column' property not set"

\* ------------------------------------------------------------------------
\* Properties of the date variance rule's dispatch and offsets
\* ------------------------------------------------------------------------
\* execute() has been entered and has chosen its branch
DateDispatched == local.pc \in {"for", "raised", "done"}

\* C25: validation fails exactly when range is 0 or method is neither
\* "simple" nor "complete" (the other fields being set), so execute() of a
\* validated rule takes the simple or the complete branch, never the else
\* branch, and the calls it makes are those of that one strategy
DateDispatch ==
    /\ local.pc /= "created" =>
          ((local.pc = "invalid") <=>
              (local.rule.range = 0 \/ local.rule.method \notin {"simple", "complete"}))
    /\ local.pc = "validated" =>
          DateVarianceRule_execute(local.rule) \in
              {"_execute_simple_method", "_execute_complete_method"}
    /\ DateDispatched =>
          /\ local.rule.method \in {"simple", "complete"}
          /\ local.calls /= <<>>
          /\ \A k \in 1..Len(local.calls) :
                (local.calls[k].op = "update_date_column_with_random_variance")
                    <=> (local.rule.method = "simple")

DateDispatchWitness ==
    /\ local.pc = "done"
    /\ local.rule.method = "complete"
    /\ local.rule.range < 0
    /\ Len(local.applied) = 2

\* the offsets the statement of the simple method can add, given the
\* range_min and range_max of the call
SimpleOffsets(call) ==
    { DateAddDays(call.args[6], call.args[7], u) : u \in 0..(RandResolution - 1) }

\* C28: the offsets the simple strategy can apply with the range_min and
\* range_max it passes to the gateway are those the complete strategy can
\* apply: every integer of [1, range] for range > 0, every integer of
\* [range, -1] for range < 0
SameOffsetSets ==
    (DateDispatched /\ local.rule.method = "simple") =>
        SimpleOffsets(local.calls[1]) = RandomNumbers(local.rule.range)

\* ------------------------------------------------------------------------
\* Properties of the scheduler's start and join loops
\* ------------------------------------------------------------------------
\* the rules of the group whose thread has not been started
NotStarted == {k \in 1..Len(rules_in_group) : thread[rules_in_group[k]] = "new"}

\* C24: the scheduler starts one thread per rule of the group, and all of
\* them before it joins any: while rules of the group are still to be
\* started the next start is enabled whatever the threads already started
\* are doing, and in the join loop every rule of the group has its thread
StartsBeforeJoins ==
    /\ (pc = "start" /\ i <= Len(rules_in_group)) =>
          /\ ENABLED StartThread
          /\ NotStarted = i..Len(rules_in_group)
          /\ started_threads = SubSeq(rules_in_group, 1, i - 1)
    /\ pc = "join" =>
          /\ NotStarted = {}
          /\ started_threads = rules_in_group

\* all rules of a group of three are inside execute() at the same time
StartsBeforeJoinsWitness ==
    /\ pc = "join"
    /\ i = 1
    /\ Len(rules_in_group) = 3
    /\ \A k \in 1..3 : thread[rules_in_group[k]] = "running"

\* rule t raised and rule u, of a larger group, was started after that
StartedAfterFailure(t, u) ==
    /\ rule_controller[t].group < rule_controller[u].group
    /\ thread[t] = "raised"
    /\ \E a \in Positions(<<"raise", t>>), b \in Positions(<<"start", u>>) : a < b

\* C26: a rule that raises in execute() does not end the run: the scheduler
\* leaves the group loop only with the list of groups empty, and then every
\* rule built, those of the groups after a failed rule included, has had
\* its thread started and run to its end
FailureDoesNotStopRun ==
    /\ pc = "done" =>
          /\ groups = <<>>
          /\ \A t \in Built : thread[t] \in {"returned", "raised"}
    /\ pc \in {"pop", "start", "join", "done"} =>
          \A t \in Built :
              rule_controller[t].group < group => thread[t] \in {"returned", "raised"}

FailureDoesNotStopRunWitness ==
    /\ pc = "done"
    /\ \E t \in Built, u \in Built :
          /\ StartedAfterFailure(t, u)
          /\ thread[u] = "returned"

\* main has returned, left through sys.exit() or been left by an exception
Terminated == pc \in {"done", "exit", "aborted"}

\* what a run that went through the group loop leaves behind
RunComplete ==
    /\ groups = <<>>
    /\ \A t \in Built :
          /\ Cardinality(Positions(<<"start", t>>)) = 1
          /\ thread[t] \in {"returned", "raised"}

\* the join loop passes a thread only when it has ended, and is left only
\* when it has passed every thread started
JoinsEveryThread ==
    /\ (pc = "join" /\ i' = i + 1) =>
          thread[started_threads[i]] \in {"returned", "raised"}
    /\ (pc = "join" /\ pc' = "pop") =>
          /\ i = Len(started_threads) + 1
          /\ started_threads = rules_in_group

\* C27: when the main thread keeps running and every execute() started
\* returns or raises, the run ends; a run that went through the group loop
\* ends with the list of groups empty and every rule's thread started once,
\* come to its end and joined
SchedulerTerminates ==
    /\ <>Terminated
    /\ [](pc = "done" => RunComplete)
    /\ [][JoinsEveryThread]_vars

SchedulerTerminatesWitness ==
    /\ pc = "done"
    /\ Len(rule_controller) = 3
    /\ \E t \in Built, u \in Built :
          /\ rule_controller[t].group /= rule_controller[u].group
          /\ thread[t] = "raised"
          /\ thread[u] = "returned"

\* ------------------------------------------------------------------------
\* Properties of per-row updates under writes of a sibling rule
\* ------------------------------------------------------------------------
HasPrimaryKey == local.primary_key.items /= <<>>

\* the record the loop read for the row with this id
RecordOf(id) ==
    CHOOSE record \in {local.records[j] : j \in 1..Len(local.records)} :
        Lookup(record, "id").int = id

\* every update issued has a where-clause on the key columns only and
\* matches the one row its record was read from
UpdatesHitTheirRow ==
    \A k \in 1..Len(local.updates) :
        /\ IsWhereClauseOn(local.updates[k].where_clause,
                           RecordOf(local.updates[k].id),
                           {local.primary_key.items[c] :
                               c \in 1..Len(local.primary_key.items)})
        /\ local.updates[k].matched = {local.updates[k].id}

PassedOver(record) ==
    /\ local.rule.class = "FakeStringSubstitutionRule"
    /\ Lookup(record, TargetColumn(local.rule)).kind = "None"

=============================================================================
